---- MODULE Spec2Model ----
(***************************************************************************)
(* Module conversion planning of Living-Codex: the priority scorer, the    *)
(* candidate analysis and the phase planner of                             *)
(* spec-driven-conversion-plan.py, and the topic classifier and the        *)
(* consolidation targets of analyze_modules_systematic.py.                 *)
(*                                                                         *)
(* Strings are TLA+ strings; Python's str.lower(), the substring test      *)
(* `k in s`, list membership `x in l`, dict.get(k, default) and            *)
(* "; ".join(l) are operators that compute what Python computes.           *)
(***************************************************************************)
EXTENDS Integers, Sequences, FiniteSets, TLC

VARIABLES
    inventory,      \* the inventory service: [modules, routes] it serves
    pc,             \* position of the running script
    modules,        \* planner: result of get_all_modules()
    routes,         \* planner: result of get_all_routes()
    candidates,     \* planner: result of analyze_conversion_candidates()
    phases,         \* planner: result of _create_conversion_phases()
    score_in,       \* arguments of one _calculate_conversion_priority call
    score_out,      \* its return value (priority, reason, strategy)
    topic_in,       \* analyze_modules_systematic: the loading report
    loaded_modules, \* analyze_modules_systematic: get_loaded_modules()
    topic_mapping,  \* analyze_modules_systematic: analyze_module_topics()
    consolidation_targets, \* ...: suggest_consolidation_targets()
    stdout,         \* the lines printed about fetches and errors
    history,        \* the states the inventory service had during the pass
    first,          \* <<the lists of the first pass>> once the script is run again
    route_data,     \* analyze_routes_detailed: the route list read from stdin
    route_analyses, \* analyze_routes_detailed: one placement analysis per route
    module_analysis,\* analyze_routes_detailed: analyze_module_cohesion()
    nodes,          \* the node store behind GET and PUT /nodes/{id}
    ref_run,        \* add-spec-references: the locals of main() and of the update
    atoms,          \* the ids of the nodes accepted by POST /spec/atoms
    marker_run      \* mark-modules-for-conversion: the locals of main()

vars == <<inventory, pc, modules, routes, candidates, phases,
          score_in, score_out, topic_in, loaded_modules, topic_mapping,
          consolidation_targets, stdout, history, first,
          route_data, route_analyses, module_analysis,
          nodes, ref_run, atoms, marker_run>>

scoreVars == <<score_in, score_out>>

topicVars == <<topic_in, loaded_modules, topic_mapping, consolidation_targets>>

runVars == <<history, first>>

planVars == <<modules, routes, candidates, phases>>

routeVars == <<route_data, route_analyses, module_analysis>>

refVars == <<nodes, ref_run>>

markerVars == <<atoms, marker_run>>

toolVars == <<routeVars, refVars, markerVars>>

(***************************************************************************)
(* Bounds of the checked inputs                                            *)
(***************************************************************************)
MaxModules == 3
MaxRoutes == 2
MaxFeatures == 2
MaxRouteCount == 12
MaxPhase2Copies == 6
MaxPhase3Copies == 9
MaxUncappedCopies == 2
MaxTopicModules == 2
MaxPriority == 30
MaxLiveModules == 2
MaxLiveRoutes == 1
MaxInventoryChanges == 1

\* routes in the report read by analyze_routes_detailed
MaxRouteData == 8

\* modules listed to add-spec-references, writes of another client in its run
MaxRefModules == 2
MaxOtherWrites == 1

\* routes listed to mark-modules-for-conversion
MaxMarkerRoutes == 3

None == "<none>"

(***************************************************************************)
(* Python primitives                                                       *)
(***************************************************************************)
Min(a, b) == IF a <= b THEN a ELSE b

\* str.lower() on one character (ASCII letters)
LowerChar(c) ==
    CASE c = "A" -> "a" [] c = "B" -> "b" [] c = "C" -> "c" [] c = "D" -> "d"
      [] c = "E" -> "e" [] c = "F" -> "f" [] c = "G" -> "g" [] c = "H" -> "h"
      [] c = "I" -> "i" [] c = "J" -> "j" [] c = "K" -> "k" [] c = "L" -> "l"
      [] c = "M" -> "m" [] c = "N" -> "n" [] c = "O" -> "o" [] c = "P" -> "p"
      [] c = "Q" -> "q" [] c = "R" -> "r" [] c = "S" -> "s" [] c = "T" -> "t"
      [] c = "U" -> "u" [] c = "V" -> "v" [] c = "W" -> "w" [] c = "X" -> "x"
      [] c = "Y" -> "y" [] c = "Z" -> "z" [] OTHER -> c

\* str.lower()
RECURSIVE Lower(_)
Lower(s) ==
    IF Len(s) = 0 THEN ""
    ELSE LowerChar(SubSeq(s, 1, 1)) \o Lower(SubSeq(s, 2, Len(s)))

\* `k in s` for strings: k occurs in s as a contiguous substring
Contains(s, k) ==
    \E i \in 1..(Len(s) - Len(k) + 1) : SubSeq(s, i, i + Len(k) - 1) = k

\* `x in l` for lists
InList(x, l) == \E i \in 1..Len(l) : l[i] = x

\* dict.get(k, default) on a record
Get(d, k, default) == IF k \in DOMAIN d THEN d[k] ELSE default

\* sep.join(l)
RECURSIVE Join(_, _)
Join(l, sep) ==
    IF Len(l) = 0 THEN ""
    ELSE IF Len(l) = 1 THEN l[1]
    ELSE l[1] \o sep \o Join(Tail(l), sep)

\* l[:n]
SliceDropsNothing(l, n) == l
Slice(l, n) == SubSeq(l, 1, Min(n, Len(l)))

(***************************************************************************)
(* SpecDrivenConversionPlanner._calculate_conversion_priority              *)
(***************************************************************************)
\* priority += delta; reasons.append(clause)
TriggerPrepends(s, delta, clause) ==
    [s EXCEPT !.priority = @ + delta, !.reasons = <<clause>> \o @]
Trigger(s, delta, clause) ==
    [s EXCEPT !.priority = @ + delta, !.reasons = Append(@, clause)]

\* strategy = tag
SetStrategyKeepsFirst(s, tag) ==
    IF s.strategy = "standard" THEN [s EXCEPT !.strategy = tag] ELSE s
SetStrategy(s, tag) == [s EXCEPT !.strategy = tag]

\* if on: priority += delta; reasons.append(clause); strategy = tag
Rule(s, on, delta, clause, tag) ==
    IF on THEN SetStrategy(Trigger(s, delta, clause), tag) ELSE s

\* if on: priority += delta; reasons.append(clause)
Factor(s, on, delta, clause) == IF on THEN Trigger(s, delta, clause) ELSE s

\* the if / elif on route_count
RouteComplexityNoElif(s, route_count) ==
    Factor(Factor(s, route_count > 10, 8,
                  "High route count (" \o ToString(route_count) \o ")"),
           route_count > 5, 4,
           "Medium route count (" \o ToString(route_count) \o ")")
RouteComplexity(s, route_count) ==
    Factor(Factor(s, route_count > 10, 8,
                  "High route count (" \o ToString(route_count) \o ")"),
           ~(route_count > 10) /\ route_count > 5, 4,
           "Medium route count (" \o ToString(route_count) \o ")")

\* max(0, priority)
ClampMissing(priority) == priority
Clamp(priority) == IF priority > 0 THEN priority ELSE 0

\* "; ".join(reasons) if reasons else "Standard module"
ReasonText(reasons) ==
    IF Len(reasons) > 0 THEN Join(reasons, "; ") ELSE "Standard module"

\* what the function returns, from the final priority, reasons and strategy
Returned(s) ==
    [priority |-> Clamp(s.priority), reason |-> ReasonText(s.reasons),
     strategy |-> s.strategy]

calculate_conversion_priority(module_id, name, features, is_hot_reloadable, route_count) ==
    LET id == Lower(module_id)
        s0 == [priority |-> 0, reasons |-> <<>>, strategy |-> "standard"]
        s1 == Rule(s0, InList("AI", features) \/ InList("LLM", features),
                   20, "AI/LLM features", "ai-enhanced")
        s2 == Rule(s1, InList("Resonance", features),
                   15, "Resonance features", "resonance-optimized")
        s3 == Rule(s2, InList("Real-time", features),
                   12, "Real-time features", "realtime-optimized")
        s4 == Rule(s3, InList("Translation", features),
                   10, "Translation features", "translation-optimized")
        s5 == Rule(s4, InList("Security", features),
                   8, "Security features", "security-focused")
        s6 == Rule(s5, InList("Graph", features),
                   6, "Graph features", "graph-optimized")
        s7 == RouteComplexity(s6, route_count)
        s8 == Rule(s7, is_hot_reloadable,
                   5, "Already hot-reloadable", "hot-reload-ready")
        s9 == Rule(s8, Contains(id, "test") \/ Contains(id, "demo"),
                   3, "Test/Demo module", "test-optimized")
        s10 == Rule(s9, Contains(id, "spec"),
                    15, "Spec-related module", "spec-native")
        s11 == Rule(s10, Contains(id, "concept"),
                    12, "Concept management", "concept-optimized")
        s12 == Factor(s11, Contains(id, "core") /\ ~is_hot_reloadable,
                      -5, "Core module - lower priority")
        s13 == Factor(s12, route_count = 0,
                      -3, "No routes - limited functionality")
    IN  Returned(s13)

(***************************************************************************)
(* SpecDrivenConversionPlanner.analyze_conversion_candidates               *)
(***************************************************************************)
\* route.get("moduleId", "unknown")
RouteOwnerNameless(route) == Get(route, "moduleId", "")
RouteOwner(route) == Get(route, "moduleId", "unknown")

\* the route count map: one key per owner seen, its number of routes
RouteCounts(rs) ==
    [o \in {RouteOwner(rs[i]) : i \in DOMAIN rs} |->
        Cardinality({i \in DOMAIN rs : RouteOwner(rs[i]) = o})]

\* module.get("isStable", False)
IsStableWrongKey(module) == Get(module, "stable", FALSE)
IsStable(module) == Get(module, "isStable", FALSE)

\* if priority > 0: only include modules worth converting
WorthConvertingAlways(priority) == priority >= 0
WorthConverting(priority) == priority > 0

\* module["id"] and module["name"] raise KeyError on a record without them
WellFormed(module) == "id" \in DOMAIN module /\ "name" \in DOMAIN module

\* str(e) of the KeyError of the first record of ms without id or name
KeyErrorText(ms) ==
    LET i == CHOOSE i \in DOMAIN ms :
                 /\ ~WellFormed(ms[i])
                 /\ \A j \in DOMAIN ms : ~WellFormed(ms[j]) => i <= j
    IN  IF "id" \notin DOMAIN ms[i] THEN "'id'" ELSE "'name'"

Candidate(module, route_counts) ==
    LET module_id == module.id
        features_list == Get(module, "features", <<>>)
        is_hot_reloadable == Get(module, "isHotReloadable", FALSE)
        route_count == Get(route_counts, module_id, 0)
        r == calculate_conversion_priority(module_id, module.name,
                 features_list, is_hot_reloadable, route_count)
    IN  [id |-> module_id, name |-> module.name, priority |-> r.priority,
         reason |-> r.reason, features |-> features_list,
         routes |-> route_count, is_hot_reloadable |-> is_hot_reloadable,
         conversion_strategy |-> r.strategy]

\* the loop over modules, from module i on, appending to acc
RECURSIVE AnalyzeLoop(_, _, _, _)
AnalyzeLoop(ms, route_counts, i, acc) ==
    IF i > Len(ms) THEN acc
    ELSE IF IsStable(ms[i]) THEN AnalyzeLoop(ms, route_counts, i + 1, acc)
    ELSE LET c == Candidate(ms[i], route_counts)
         IN  IF WorthConverting(c.priority)
             THEN AnalyzeLoop(ms, route_counts, i + 1, Append(acc, c))
             ELSE AnalyzeLoop(ms, route_counts, i + 1, acc)

\* list.sort(key=priority, reverse=True) is stable: the element at input
\* position i comes after every element of greater priority and after the
\* elements of equal priority that precede it in the input
SortByPriorityTiesReversed(l) ==
    LET before == [i \in 1..Len(l) |->
                      Cardinality({j \in 1..Len(l) :
                          \/ l[j].priority > l[i].priority
                          \/ l[j].priority = l[i].priority /\ j > i})]
    IN  [k \in 1..Len(l) |-> l[CHOOSE i \in 1..Len(l) : before[i] = k - 1]]
SortByPriority(l) ==
    LET before == [i \in 1..Len(l) |->
                      Cardinality({j \in 1..Len(l) :
                          \/ l[j].priority > l[i].priority
                          \/ l[j].priority = l[i].priority /\ j < i})]
    IN  [k \in 1..Len(l) |-> l[CHOOSE i \in 1..Len(l) : before[i] = k - 1]]

analyze_conversion_candidates_appending(ms, rs) ==
    SortByPriority(AnalyzeLoop(ms, RouteCounts(rs), 1,
        IF Len(first) = 1 THEN first[1].candidates ELSE <<>>))
analyze_conversion_candidates(ms, rs) ==
    SortByPriority(AnalyzeLoop(ms, RouteCounts(rs), 1, <<>>))

(***************************************************************************)
(* SpecDrivenConversionPlanner._create_conversion_phases                   *)
(***************************************************************************)
Phase2Cap == 5
Phase3Cap == 8

InPhase1(c) == c.priority >= 20 /\ c.is_hot_reloadable
InPhase2IgnoresId(c) == c.priority >= 15 /\ ~c.is_hot_reloadable
InPhase2(c) ==
    c.priority >= 15 /\ ~c.is_hot_reloadable /\ ~Contains(Lower(c.id), "test")
InPhase3NoUpperBound(c) == 10 <= c.priority
InPhase3(c) == 10 <= c.priority /\ c.priority < 15
InPhase4UpToTen(c) == c.priority <= 10 /\ c.priority > 0
InPhase4(c) == c.priority < 10 /\ c.priority > 0

\* [{"id": c.id, "name": c.name, "priority": c.priority} for c in l]
Summaries(l) ==
    [i \in 1..Len(l) |->
        [id |-> l[i].id, name |-> l[i].name, priority |-> l[i].priority]]

\* if l: phases.append(phase)
AppendPhaseAlways(l, phase) == <<phase>>
AppendPhase(l, phase) == IF Len(l) > 0 THEN <<phase>> ELSE <<>>

Phase1(phase1) ==
    AppendPhase(phase1,
        [phase |-> 1, name |-> "Quick Wins - Hot-Reload Ready",
         modules |-> Summaries(phase1),
         estimated_effort |-> "Low", timeline |-> "1-2 days"])

Phase2(phase2) ==
    AppendPhase(phase2,
        [phase |-> 2, name |-> "High-Impact Conversions",
         modules |-> Summaries(Slice(phase2, Phase2Cap)),
         estimated_effort |-> "Medium", timeline |-> "1-2 weeks"])

Phase3(phase3) ==
    AppendPhase(phase3,
        [phase |-> 3, name |-> "Medium-Priority Conversions",
         modules |-> Summaries(Slice(phase3, Phase3Cap)),
         estimated_effort |-> "Medium", timeline |-> "2-3 weeks"])

Phase4(phase4) ==
    AppendPhase(phase4,
        [phase |-> 4, name |-> "Complete Coverage",
         modules |-> Summaries(phase4),
         estimated_effort |-> "High", timeline |-> "1-2 months"])

create_conversion_phases(cs) ==
    Phase1(SelectSeq(cs, InPhase1))
    \o Phase2(SelectSeq(cs, InPhase2))
    \o Phase3(SelectSeq(cs, InPhase3))
    \o Phase4(SelectSeq(cs, InPhase4))

(***************************************************************************)
(* The planning run: fetch modules, fetch routes, analyse, plan            *)
(***************************************************************************)
\* what a fetch can end in: the list, or an exception of requests (no
\* connection, or raise_for_status() on an error status)
FetchOutcomes == {"ok", "ConnectionError", "HTTPError"}

\* main(): the message printed for an exception that reaches it
ErrorLine(exception) ==
    IF exception = "ConnectionError"
    THEN "Error: Could not connect to the application"
    ELSE "Error: " \o exception

GetAllModules ==
    /\ pc = "start"
    /\ \E outcome \in FetchOutcomes :
           IF outcome = "ok"
           THEN /\ modules' = inventory.modules
                /\ pc' = "modules"
                /\ stdout' = stdout
           ELSE /\ modules' = modules
                /\ pc' = "error"
                /\ stdout' = Append(stdout, ErrorLine(outcome))
    /\ UNCHANGED <<toolVars, inventory, routes, candidates, phases, scoreVars, topicVars,
                   runVars>>

GetAllRoutes ==
    /\ pc = "modules"
    /\ \E outcome \in FetchOutcomes :
           IF outcome = "ok"
           THEN /\ routes' = inventory.routes
                /\ pc' = "routes"
                /\ stdout' = stdout
           ELSE /\ routes' = routes
                /\ pc' = "error"
                /\ stdout' = Append(stdout, ErrorLine(outcome))
    /\ UNCHANGED <<toolVars, inventory, modules, candidates, phases, scoreVars, topicVars,
                   runVars>>

AnalyzeConversionCandidates ==
    /\ pc = "routes"
    /\ IF \A i \in DOMAIN modules : WellFormed(modules[i])
       THEN /\ candidates' = analyze_conversion_candidates(modules, routes)
            /\ pc' = "candidates"
            /\ stdout' = stdout
       ELSE /\ candidates' = candidates
            /\ pc' = "error"
            /\ stdout' = Append(stdout, ErrorLine(KeyErrorText(modules)))
    /\ UNCHANGED <<toolVars, inventory, modules, routes, phases, scoreVars, topicVars,
                   runVars>>

CreateConversionPhases ==
    /\ pc = "candidates"
    /\ phases' = create_conversion_phases(candidates)
    /\ pc' = "plan"
    /\ UNCHANGED <<toolVars, inventory, modules, routes, candidates, scoreVars, topicVars,
                   stdout, runVars>>

Next ==
    \/ GetAllModules
    \/ GetAllRoutes
    \/ AnalyzeConversionCandidates
    \/ CreateConversionPhases

\* lists over S of length at most n
SeqsUpTo(S, n) == UNION {[1..k -> S] : k \in 0..n}

\* the same, without repetition
DistinctSeqsUpTo(S, n) ==
    {l \in SeqsUpTo(S, n) : \A i, j \in DOMAIN l : i # j => l[i] # l[j]}

ModulePool ==
    { [id |-> "codex.ai-analysis", name |-> "AI Analysis", version |-> "1.0",
       features |-> <<"AI", "Real-time">>, isHotReloadable |-> TRUE,
       isStable |-> FALSE],
      [id |-> "codex.spec-driven", name |-> "Spec Driven", version |-> "1.0",
       features |-> <<>>, isHotReloadable |-> FALSE, isStable |-> FALSE],
      [id |-> "core-legacy", name |-> "Legacy", version |-> "0.9",
       features |-> <<>>, isHotReloadable |-> FALSE, isStable |-> FALSE],
      [id |-> "codex.storage", name |-> "Storage", version |-> "1.0",
       features |-> <<"AI", "Resonance">>, isHotReloadable |-> TRUE,
       isStable |-> TRUE],
      [id |-> "codex.joy", name |-> "Joy", version |-> "1.0",
       features |-> <<"Resonance">>],
      [id |-> "codex.graph", name |-> "Graph", version |-> "1.0",
       features |-> <<"Graph">>, isHotReloadable |-> FALSE,
       isStable |-> FALSE],
      [id |-> "unknown", name |-> "Unknown", version |-> "1.0",
       features |-> <<"Security">>, isHotReloadable |-> FALSE,
       isStable |-> FALSE],
      [name |-> "Nameless", version |-> "1.0", features |-> <<"AI">>,
       isHotReloadable |-> FALSE, isStable |-> FALSE] }

RouteList ==
    << [id |-> "r1", path |-> "/graph/query", method |-> "GET",
        moduleId |-> "codex.graph"],
       [id |-> "r2", path |-> "/graph/update", method |-> "POST",
        moduleId |-> "codex.graph"],
       [id |-> "r3", path |-> "/ghost", method |-> "GET",
        moduleId |-> "ghost.module"],
       [id |-> "r4", path |-> "/orphan", method |-> "GET"] >>

RoutePool == {RouteList[i] : i \in DOMAIN RouteList}

Inventories ==
    [modules : DistinctSeqsUpTo(ModulePool, MaxModules),
     routes : DistinctSeqsUpTo(RoutePool, MaxRoutes)]

\* no planning run
Idle ==
    /\ inventory = None /\ modules = None /\ routes = None
    /\ candidates = None /\ phases = None
    /\ history = None /\ first = <<>>

NoCall == score_in = None /\ score_out = None

\* none of the three other scripts is run
NoRoutesRun ==
    route_data = None /\ route_analyses = None /\ module_analysis = None

NoRefRun == nodes = None /\ ref_run = None

NoMarkerRun == atoms = None /\ marker_run = None

NoTools == NoRoutesRun /\ NoRefRun /\ NoMarkerRun

NoTopics ==
    /\ topic_in = None /\ loaded_modules = None /\ topic_mapping = None
    /\ consolidation_targets = None

NotFetched ==
    /\ pc = "start"
    /\ modules = None /\ routes = None /\ candidates = None /\ phases = None
    /\ stdout = <<>>

Init ==
    /\ inventory \in Inventories
    /\ history = <<inventory>> /\ first = <<>>
    /\ NotFetched /\ NoCall /\ NoTopics /\ NoTools

Spec == Init /\ [][Next]_vars

(***************************************************************************)
(* The planner against a running service: modules are loaded and unloaded  *)
(* and routes registered while the script runs, and the script is run a    *)
(* second time                                                             *)
(***************************************************************************)
LiveModulePool ==
    {m \in ModulePool :
        WellFormed(m) /\ m.id \in {"codex.graph", "codex.joy", "core-legacy"}}

\* l without its last element
Front(l) == SubSeq(l, 1, Len(l) - 1)

\* the module is loaded and registers the routes of the pool that name it
Loaded(inv, m) ==
    LET Registers(route) ==
            /\ "moduleId" \in DOMAIN route /\ route.moduleId = m.id
            /\ ~InList(route, inv.routes)
    IN  [modules |-> Append(inv.modules, m),
         routes |-> inv.routes \o SelectSeq(RouteList, Registers)]

\* the route is one of no module that is being unloaded
NotOf(id, route) == ~("moduleId" \in DOMAIN route /\ route.moduleId = id)

\* the last module is unloaded and its routes go with it
Unloaded(inv) ==
    LET id == inv.modules[Len(inv.modules)].id
        Keeps(route) == NotOf(id, route)
    IN  [modules |-> Front(inv.modules),
         routes |-> SelectSeq(inv.routes, Keeps)]

\* the states the service can move to in one step: a module is loaded or the
\* last one unloaded, a route is registered or the last one removed
Changed(inv) ==
    {Loaded(inv, m) : m \in {x \in LiveModulePool : ~InList(x, inv.modules)}}
    \cup {[inv EXCEPT !.routes = Append(@, r)] :
        r \in {x \in RoutePool : ~InList(x, inv.routes)}}
    \cup (IF Len(inv.modules) > 0 THEN {Unloaded(inv)} ELSE {})
    \cup (IF Len(inv.routes) > 0
          THEN {[inv EXCEPT !.routes = Front(@)]} ELSE {})

\* the service changes between the planner's two requests
InventoryChanges ==
    /\ pc = "modules"
    /\ Len(history) <= MaxInventoryChanges
    /\ inventory' \in Changed(inventory)
    /\ history' = Append(history, inventory')
    /\ UNCHANGED <<toolVars, pc, modules, routes, candidates, phases, scoreVars,
                   topicVars, stdout, first>>

\* the script is started again after a plan: a new process, nothing kept
RunAgain ==
    /\ pc = "plan"
    /\ first = <<>>
    /\ first' = <<[modules |-> modules, routes |-> routes,
                   candidates |-> candidates, phases |-> phases]>>
    /\ pc' = "start"
    /\ modules' = None /\ routes' = None /\ candidates' = None
    /\ phases' = None
    /\ history' = <<inventory>>
    /\ UNCHANGED <<toolVars, inventory, scoreVars, topicVars, stdout>>

NextLive ==
    \/ GetAllModules
    \/ GetAllRoutes
    \/ AnalyzeConversionCandidates
    \/ CreateConversionPhases
    \/ InventoryChanges
    \/ RunAgain

InitLive ==
    /\ inventory \in [modules : DistinctSeqsUpTo(LiveModulePool, MaxLiveModules),
                      routes : DistinctSeqsUpTo(RoutePool, MaxLiveRoutes)]
    /\ history = <<inventory>> /\ first = <<>>
    /\ NotFetched /\ NoCall /\ NoTopics /\ NoTools

SpecLive == InitLive /\ [][NextLive]_vars

(***************************************************************************)
(* Inventories that fill the phases: copies of a few kinds of module, one  *)
(* route each                                                              *)
(***************************************************************************)
ModuleKinds ==
    << [base |-> "mod.quick", features |-> <<"Resonance">>, hot |-> TRUE,
        copies |-> MaxUncappedCopies],
       [base |-> "mod.impact", features |-> <<"Resonance">>, hot |-> FALSE,
        copies |-> MaxPhase2Copies],
       [base |-> "mod.major", features |-> <<"AI">>, hot |-> FALSE,
        copies |-> 1],
       [base |-> "mod.medium", features |-> <<"Translation">>, hot |-> FALSE,
        copies |-> MaxPhase3Copies],
       [base |-> "mod.upper", features |-> <<"Real-time">>, hot |-> FALSE,
        copies |-> 1],
       [base |-> "mod.minor", features |-> <<"Graph">>, hot |-> FALSE,
        copies |-> MaxUncappedCopies],
       [base |-> "mod.test-rt", features |-> <<"Real-time">>, hot |-> FALSE,
        copies |-> 1] >>

KindModule(k, n) ==
    [id |-> ModuleKinds[k].base \o "-" \o ToString(n),
     name |-> ModuleKinds[k].base, version |-> "1.0",
     features |-> ModuleKinds[k].features,
     isHotReloadable |-> ModuleKinds[k].hot, isStable |-> FALSE]

\* count[k] copies of kind k, for the kinds from k on
RECURSIVE KindModules(_, _)
KindModules(count, k) ==
    IF k > Len(ModuleKinds) THEN <<>>
    ELSE [n \in 1..count[k] |-> KindModule(k, n)] \o KindModules(count, k + 1)

OneRouteEach(ms) ==
    [i \in 1..Len(ms) |->
        [id |-> "route-" \o ToString(i), path |-> "/op", method |-> "GET",
         moduleId |-> ms[i].id]]

Copies(k) == 0..ModuleKinds[k].copies

InitPhases ==
    /\ \E c1 \in Copies(1), c2 \in Copies(2), c3 \in Copies(3), c4 \in Copies(4),
          c5 \in Copies(5), c6 \in Copies(6), c7 \in Copies(7) :
           inventory =
               [modules |-> KindModules(<<c1, c2, c3, c4, c5, c6, c7>>, 1),
                routes |-> OneRouteEach(
                               KindModules(<<c1, c2, c3, c4, c5, c6, c7>>, 1))]
    /\ history = <<inventory>> /\ first = <<>>
    /\ NotFetched /\ NoCall /\ NoTopics /\ NoTools

SpecPhases == InitPhases /\ [][Next]_vars

(***************************************************************************)
(* analyze_modules_systematic.py: get_loaded_modules, analyze_module_topics *)
(***************************************************************************)
\* ModuleInfo(id=module_data['id'], name=..., version=...); a record without
\* one of the three raises, and the except clause returns []
ModuleInfo(module_data) ==
    [id |-> module_data.id, name |-> module_data.name,
     version |-> module_data.version]

\* the exception raised inside the try block, None when there is none: curl
\* exits non-zero (check=True), or a record lacks one of the three keys
LoadException(report, outcome) ==
    IF outcome # "ok" THEN outcome
    ELSE IF \A i \in DOMAIN report :
                {"id", "name", "version"} \subseteq DOMAIN report[i]
    THEN None
    ELSE "KeyError"

get_loaded_modules(report) ==
    IF LoadException(report, "ok") = None
    THEN [i \in DOMAIN report |-> ModuleInfo(report[i])]
    ELSE <<>>

\* any(keyword in module_id or keyword in module_name for keyword in keywords)
AnyKeywordInIdOnly(keywords, module_id, module_name) ==
    \E k \in DOMAIN keywords : Contains(module_id, keywords[k])
AnyKeyword(keywords, module_id, module_name) ==
    \E k \in DOMAIN keywords :
        Contains(module_id, keywords[k]) \/ Contains(module_name, keywords[k])

\* the topic of the final else
Unclassified == "Unknown"
OtherTopic == "Other"

\* the if / elif chain on one module
TopicOf(module) ==
    LET module_id == Lower(module.id)
        module_name == Lower(module.name)
        Hit(keywords) == AnyKeyword(keywords, module_id, module_name)
    IN  IF Hit(<<"ai", "llm", "llm.future", "llm.response", "ucore.llm">>)
        THEN "AI/LLM"
        ELSE IF Hit(<<"translation", "translate", "language">>)
        THEN "Translation"
        ELSE IF Hit(<<"concept", "concept-registry", "userconcept">>)
        THEN "Concept"
        ELSE IF Hit(<<"joy", "resonance", "ucore.joy", "resonance-joy">>)
        THEN "Joy/Resonance"
        ELSE IF Hit(<<"storage", "distributed-storage", "storage-endpoints">>)
        THEN "Storage"
        ELSE IF Hit(<<"security", "auth", "access-control", "digital-signature",
                      "identity">>)
        THEN "Security"
        ELSE IF Hit(<<"core", "breath", "composer", "delta", "phase", "plan",
                      "relations">>)
        THEN "Core System"
        ELSE IF Hit(<<"user", "user-contributions">>)
        THEN "User Management"
        ELSE IF Hit(<<"realtime", "event-streaming", "push-notifications">>)
        THEN "Communication"
        ELSE IF Hit(<<"analysis", "intelligent", "caching", "load-balancing">>)
        THEN "Analysis/Intelligence"
        ELSE IF Hit(<<"openapi", "spec", "reflect", "oneshot">>)
        THEN "API/Documentation"
        ELSE IF Hit(<<"future", "knowledge">>)
        THEN "Future/Knowledge"
        ELSE OtherTopic

\* topic_mapping[module.id] = topic, module after module: the last module of
\* an id decides its entry
analyze_module_topics(ms) ==
    [id \in {ms[i].id : i \in DOMAIN ms} |->
        TopicOf(ms[CHOOSE i \in DOMAIN ms :
                       /\ ms[i].id = id
                       /\ \A j \in DOMAIN ms : ms[j].id = id => j <= i])]

(***************************************************************************)
(* analyze_modules_systematic.py: suggest_consolidation_targets            *)
(***************************************************************************)
TargetModulesTranslationMerged ==
    "AI/LLM" :> "AIModule" @@ "Translation" :> "AIModule"
    @@ "Concept" :> "ConceptModule" @@ "Joy/Resonance" :> "JoyModule"
    @@ "Storage" :> "StorageModule" @@ "Security" :> "SecurityModule"
    @@ "User Management" :> "UserModule"
    @@ "Communication" :> "CommunicationModule"
    @@ "Analysis/Intelligence" :> "IntelligenceModule"
    @@ "API/Documentation" :> "APIModule"
    @@ "Future/Knowledge" :> "KnowledgeModule"
TargetModules ==
    "AI/LLM" :> "AIModule" @@ "Translation" :> "TranslationModule"
    @@ "Concept" :> "ConceptModule" @@ "Joy/Resonance" :> "JoyModule"
    @@ "Storage" :> "StorageModule" @@ "Security" :> "SecurityModule"
    @@ "User Management" :> "UserModule"
    @@ "Communication" :> "CommunicationModule"
    @@ "Analysis/Intelligence" :> "IntelligenceModule"
    @@ "API/Documentation" :> "APIModule"
    @@ "Future/Knowledge" :> "KnowledgeModule"

\* target_modules[topic] if topic in target_modules else 'Keep Separate'
TargetOfOtherOnlyKept(topic) ==
    IF topic \in DOMAIN TargetModules THEN TargetModules[topic]
    ELSE IF topic = "Other" THEN "Keep Separate"
    ELSE "CoreModule"
TargetOf(topic) ==
    IF topic \in DOMAIN TargetModules THEN TargetModules[topic]
    ELSE "Keep Separate"

\* topic_mapping.get(id, 'Other')
TopicFor(mapping, id) == IF id \in DOMAIN mapping THEN mapping[id] ELSE "Other"

suggest_consolidation_targets(ms, mapping) ==
    [id \in {ms[i].id : i \in DOMAIN ms} |-> TargetOf(TopicFor(mapping, id))]

\* what the curl call can end in
LoadOutcomes == {"ok", "CalledProcessError"}

\* get_loaded_modules() as main() calls it: the except clause prints the error
\* and returns [], and main() prints the number of modules found
GetLoadedModules ==
    /\ pc = "load"
    /\ \E outcome \in LoadOutcomes :
         LET e == LoadException(topic_in, outcome)
             result == IF outcome = "ok" THEN get_loaded_modules(topic_in)
                       ELSE <<>>
             printed == IF e = None THEN stdout
                        ELSE Append(stdout, "Error getting modules: " \o e)
         IN  /\ loaded_modules' = result
             /\ stdout' = Append(printed,
                    "Found " \o ToString(Len(result)) \o " modules")
    /\ pc' = "loaded"
    /\ UNCHANGED <<toolVars, inventory, modules, routes, candidates, phases, scoreVars,
                   topic_in, topic_mapping, consolidation_targets, runVars>>

AnalyzeModuleTopics ==
    /\ pc = "loaded"
    /\ topic_mapping' = analyze_module_topics(loaded_modules)
    /\ pc' = "topics"
    /\ UNCHANGED <<toolVars, inventory, modules, routes, candidates, phases, scoreVars,
                   topic_in, loaded_modules, consolidation_targets, stdout,
                   runVars>>

SuggestConsolidationTargets ==
    /\ pc = "topics"
    /\ consolidation_targets' =
           suggest_consolidation_targets(loaded_modules, topic_mapping)
    /\ pc' = "targets"
    /\ UNCHANGED <<toolVars, inventory, modules, routes, candidates, phases, scoreVars,
                   topic_in, loaded_modules, topic_mapping, stdout, runVars>>

NextTopics ==
    \/ GetLoadedModules
    \/ AnalyzeModuleTopics
    \/ SuggestConsolidationTargets

\* the records of a loading report: an id and a name for every rule of the
\* chain, ids that match several rules, a name that matches where the id does
\* not, upper case, "ai" inside a longer word, a declared feature that names
\* another topic, and nothing that matches
ReportPool ==
    { [id |-> "ai-concept-engine", name |-> "Engine", version |-> "1.0"],
      [id |-> "codex.translation", name |-> "Translator", version |-> "1.0"],
      [id |-> "codex.userconcept", name |-> "Registry", version |-> "1.0"],
      [id |-> "codex.resonance-joy", name |-> "Calculator", version |-> "1.0"],
      [id |-> "codex.storage", name |-> "Files", version |-> "1.0",
       features |-> <<"AI", "Translation">>],
      [id |-> "codex.auth", name |-> "Login", version |-> "1.0"],
      [id |-> "codex.spec-plan", name |-> "Planner", version |-> "1.0"],
      [id |-> "codex.user-contributions", name |-> "Ledger", version |-> "1.0"],
      [id |-> "codex.realtime", name |-> "Push", version |-> "1.0"],
      [id |-> "codex.caching", name |-> "Cache", version |-> "1.0"],
      [id |-> "codex.openapi", name |-> "Docs", version |-> "1.0"],
      [id |-> "codex.future", name |-> "Oracle", version |-> "1.0"],
      [id |-> "codex.hello", name |-> "Hello", version |-> "1.0",
       features |-> <<"LLM">>],
      [id |-> "codex.mail", name |-> "Post", version |-> "1.0"],
      [id |-> "codex.gate", name |-> "SECURITY Gate", version |-> "1.0"],
      [id |-> "Codex.Spec", name |-> "Reader", version |-> "1.0"],
      [name |-> "Nameless", version |-> "1.0"] }

InitTopics ==
    /\ pc = "load"
    /\ topic_in \in DistinctSeqsUpTo(ReportPool, MaxTopicModules)
    /\ loaded_modules = None /\ topic_mapping = None
    /\ consolidation_targets = None
    /\ stdout = <<>>
    /\ NoCall /\ Idle /\ NoTools

SpecTopics == InitTopics /\ [][NextTopics]_vars

(***************************************************************************)
(* The scorer on its own: every argument tuple within the bounds           *)
(***************************************************************************)
ScoreIds ==
    {"codex.ai-analysis", "codex.spec-driven", "core-legacy", "Codex.CORE.Demo",
     "codex.concept-test", "ContestModule", "codex.storage", "SpecConcept"}

FeatureTags ==
    {"AI", "LLM", "Resonance", "Real-time", "Translation", "Security", "Graph",
     "Caching"}

FeatureLists == SeqsUpTo(FeatureTags, MaxFeatures)

ScoreArgs ==
    [module_id : ScoreIds, name : {"Module"}, features : FeatureLists,
     is_hot_reloadable : BOOLEAN, route_count : 0..MaxRouteCount]

InitScore ==
    /\ pc = "score"
    /\ score_in \in ScoreArgs
    /\ score_out = None
    /\ stdout = <<>>
    /\ NoTopics
    /\ Idle /\ NoTools

CalculateConversionPriority ==
    /\ pc = "score"
    /\ score_out' = calculate_conversion_priority(
                        score_in.module_id, score_in.name, score_in.features,
                        score_in.is_hot_reloadable, score_in.route_count)
    /\ pc' = "scored"
    /\ UNCHANGED <<toolVars, inventory, modules, routes, candidates, phases, score_in,
                   topicVars, stdout, runVars>>

NextScore == CalculateConversionPriority

SpecScore == InitScore /\ [][NextScore]_vars

(***************************************************************************)
(* Claims about the scorer (checked under SpecScore)                       *)
(***************************************************************************)
Scored == pc = "scored"

Weight(b, n) == IF b THEN n ELSE 0

HasFeature(a, f) == f \in {a.features[i] : i \in DOMAIN a.features}

\* the sum S of the deltas of the triggered conditions, as the table states it
DeltaSum(a) ==
    LET id == Lower(a.module_id)
        F == {a.features[i] : i \in DOMAIN a.features}
    IN    Weight("AI" \in F \/ "LLM" \in F, 20)
        + Weight("Resonance" \in F, 15)
        + Weight("Real-time" \in F, 12)
        + Weight("Translation" \in F, 10)
        + Weight("Security" \in F, 8)
        + Weight("Graph" \in F, 6)
        + Weight(a.route_count > 10, 8)
        + Weight(5 < a.route_count /\ a.route_count <= 10, 4)
        + Weight(a.is_hot_reloadable, 5)
        + Weight(Contains(id, "test") \/ Contains(id, "demo"), 3)
        + Weight(Contains(id, "spec"), 15)
        + Weight(Contains(id, "concept"), 12)
        - Weight(Contains(id, "core") /\ ~a.is_hot_reloadable, 5)
        - Weight(a.route_count = 0, 3)

ExampleAiAnalysis ==
    [module_id |-> "codex.ai-analysis", name |-> "Module",
     features |-> <<"AI", "Real-time">>, is_hot_reloadable |-> TRUE,
     route_count |-> 12]

ExampleSpecDriven ==
    [module_id |-> "codex.spec-driven", name |-> "Module", features |-> <<>>,
     is_hot_reloadable |-> FALSE, route_count |-> 0]

ExampleCoreLegacy ==
    [module_id |-> "core-legacy", name |-> "Module", features |-> <<>>,
     is_hot_reloadable |-> FALSE, route_count |-> 0]

\* C3: the returned priority is max(0, S), S the sum of the deltas of the
\* triggered conditions (AI/LLM once, test/demo once, the two route-count bands
\* exclusive); codex.ai-analysis {AI, Real-time}, hot, 12 routes scores 45 and
\* codex.spec-driven with nothing else scores 12.
C3_PriorityIsClampedDeltaSum ==
    Scored =>
        /\ score_out.priority =
               (IF DeltaSum(score_in) > 0 THEN DeltaSum(score_in) ELSE 0)
        /\ score_in = ExampleAiAnalysis => score_out.priority = 45
        /\ score_in = ExampleSpecDriven => score_out.priority = 12

C3_Witness ==
    /\ Scored
    /\ score_in = ExampleAiAnalysis
    /\ score_out.priority = 45

\* C4: the returned priority is never negative, and it is 0 whenever the raw
\* sum of deltas is below 0 (core-legacy, not hot-reloadable, no routes, no
\* features: raw sum -8, reported 0).
C4_PriorityNonNegative ==
    Scored =>
        /\ score_out.priority >= 0
        /\ DeltaSum(score_in) < 0 => score_out.priority = 0
        /\ score_in = ExampleCoreLegacy =>
               DeltaSum(score_in) = -8 /\ score_out.priority = 0

C4_Witness ==
    /\ Scored
    /\ score_in = ExampleCoreLegacy
    /\ DeltaSum(score_in) = -8
    /\ score_out.priority = 0

\* the strategy-setting rules in their fixed order, with their weights
StrategyRules(a) ==
  LET id == Lower(a.module_id) IN
    << [on |-> HasFeature(a, "AI") \/ HasFeature(a, "LLM"), weight |-> 20,
        tag |-> "ai-enhanced"],
       [on |-> HasFeature(a, "Resonance"), weight |-> 15,
        tag |-> "resonance-optimized"],
       [on |-> HasFeature(a, "Real-time"), weight |-> 12,
        tag |-> "realtime-optimized"],
       [on |-> HasFeature(a, "Translation"), weight |-> 10,
        tag |-> "translation-optimized"],
       [on |-> HasFeature(a, "Security"), weight |-> 8,
        tag |-> "security-focused"],
       [on |-> HasFeature(a, "Graph"), weight |-> 6,
        tag |-> "graph-optimized"],
       [on |-> a.is_hot_reloadable, weight |-> 5, tag |-> "hot-reload-ready"],
       [on |-> Contains(id, "test") \/ Contains(id, "demo"), weight |-> 3,
        tag |-> "test-optimized"],
       [on |-> Contains(id, "spec"), weight |-> 15, tag |-> "spec-native"],
       [on |-> Contains(id, "concept"), weight |-> 12, tag |-> "concept-optimized"] >>

\* the indices of the triggered rules among R
Triggered(R) == {i \in 1..Len(R) : R[i].on}

LastTriggeredTag(a) ==
    LET R == StrategyRules(a)
        T == Triggered(R)
    IN  IF T = {} THEN "standard"
        ELSE R[CHOOSE i \in T : \A j \in T : j <= i].tag

\* the tags of the triggered rules of greatest weight
HeaviestTriggeredTags(a) ==
    LET R == StrategyRules(a)
        T == Triggered(R)
    IN  {R[i].tag : i \in {k \in T : \A j \in T : R[j].weight <= R[k].weight}}

\* C5: the returned strategy is the tag of the last triggered strategy-setting
\* rule in rule order, whatever the weights, and "standard" when none
\* triggers; the route-count rules and the two negative rules leave it alone.
C5_StrategyIsLastTriggered ==
    Scored => score_out.strategy = LastTriggeredTag(score_in)

\* a call where the last triggered rule is not the heaviest one, and a
\* route-count rule and a negative rule triggered as well
C5_Witness ==
    /\ Scored
    /\ Triggered(StrategyRules(score_in)) # {}
    /\ score_out.strategy \notin HeaviestTriggeredTags(score_in)
    /\ score_out.strategy = LastTriggeredTag(score_in)
    /\ score_in.route_count > 10

\* the conditions of the table in rule order, each with its clause
ReasonRules(a) ==
  LET id == Lower(a.module_id)
      F == {a.features[i] : i \in DOMAIN a.features}
      n == ToString(a.route_count)
  IN
    << [on |-> "AI" \in F \/ "LLM" \in F, clause |-> "AI/LLM features"],
       [on |-> "Resonance" \in F, clause |-> "Resonance features"],
       [on |-> "Real-time" \in F, clause |-> "Real-time features"],
       [on |-> "Translation" \in F, clause |-> "Translation features"],
       [on |-> "Security" \in F, clause |-> "Security features"],
       [on |-> "Graph" \in F, clause |-> "Graph features"],
       [on |-> a.route_count > 10,
        clause |-> "High route count (" \o n \o ")"],
       [on |-> 5 < a.route_count /\ a.route_count <= 10,
        clause |-> "Medium route count (" \o n \o ")"],
       [on |-> a.is_hot_reloadable, clause |-> "Already hot-reloadable"],
       [on |-> Contains(id, "test") \/ Contains(id, "demo"),
        clause |-> "Test/Demo module"],
       [on |-> Contains(id, "spec"), clause |-> "Spec-related module"],
       [on |-> Contains(id, "concept"), clause |-> "Concept management"],
       [on |-> Contains(id, "core") /\ ~a.is_hot_reloadable,
        clause |-> "Core module - lower priority"],
       [on |-> a.route_count = 0,
        clause |-> "No routes - limited functionality"] >>

\* the clauses of the triggered rules among R[i..], each after "; " except
\* the first one written
RECURSIVE ClausesFrom(_, _, _)
ClausesFrom(R, i, first_written) ==
    IF i > Len(R) THEN ""
    ELSE IF R[i].on
    THEN (IF first_written THEN "; " ELSE "") \o R[i].clause
             \o ClausesFrom(R, i + 1, TRUE)
    ELSE ClausesFrom(R, i + 1, first_written)

\* C24: the reason is the clauses of the triggered conditions, one each, in
\* rule order, joined with "; "; it is "Standard module" exactly when no
\* condition triggers, which requires a route count between 1 and 5.
C24_ReasonIsTriggeredClauses ==
    Scored =>
        LET R == ReasonRules(score_in)
        IN  /\ Triggered(R) # {} =>
                   score_out.reason = ClausesFrom(R, 1, FALSE)
            /\ score_out.reason = "Standard module" <=> Triggered(R) = {}
            /\ score_out.reason = "Standard module" =>
                   score_in.route_count \in 1..5

\* four clauses in rule order, a route-count clause between feature clauses
\* and the hot-reload clause
C24_Witness ==
    /\ Scored
    /\ score_in = ExampleAiAnalysis
    /\ Cardinality(Triggered(ReasonRules(score_in))) = 4
    /\ score_out.reason =
           "AI/LLM features; Real-time features; High route count (12); "
               \o "Already hot-reloadable"

(***************************************************************************)
(* Claims about the candidate analysis (checked under Spec)                *)
(***************************************************************************)
Analyzed == pc \in {"candidates", "plan"}

\* the module record says isStable == true
MarkedStable(m) == "isStable" \in DOMAIN m /\ m.isStable = TRUE

CandidateIds == {candidates[i].id : i \in DOMAIN candidates}

\* the number of fetched routes that name the module
RoutesNaming(m) ==
    Cardinality({i \in DOMAIN routes :
        "moduleId" \in DOMAIN routes[i] /\ routes[i].moduleId = m.id})

\* the scorer's arguments for a fetched module
ArgsOf(m) ==
    [module_id |-> m.id, name |-> m.name,
     features |-> IF "features" \in DOMAIN m THEN m.features ELSE <<>>,
     is_hot_reloadable |->
         "isHotReloadable" \in DOMAIN m /\ m.isHotReloadable = TRUE,
     route_count |-> RoutesNaming(m)]

\* C1: no candidate belongs to a module with isStable == true, whatever the
\* module's features, id, hot-reload flag and route count.
C1_StableNeverCandidate ==
    Analyzed =>
        \A j \in DOMAIN modules :
            MarkedStable(modules[j]) => modules[j].id \notin CandidateIds

\* a stable module that would score 40 was analysed next to a candidate
C1_Witness ==
    /\ Analyzed
    /\ candidates # <<>>
    /\ \E j \in DOMAIN modules :
           /\ MarkedStable(modules[j])
           /\ DeltaSum(ArgsOf(modules[j])) >= 20
           /\ modules[j].id \notin CandidateIds

\* the number of candidates with the id of module m
CandidatesOf(m) ==
    Cardinality({i \in DOMAIN candidates : candidates[i].id = m.id})

ModuleIndex(id) == CHOOSE j \in DOMAIN modules : modules[j].id = id

\* the ids of the fetched modules
ModuleIds == {modules[j].id : j \in DOMAIN modules}

\* the route names a moduleId, and no fetched module has it
NamesAbsentModule(route) ==
    "moduleId" \in DOMAIN route /\ route.moduleId \notin ModuleIds

NamesNoAbsentModule(route) == ~NamesAbsentModule(route)

\* the number of fetched routes without a moduleId
Ownerless == Cardinality({i \in DOMAIN routes : "moduleId" \notin DOMAIN routes[i]})

\* the analysis ended in an exception (both fetches had succeeded)
AnalysisFailed ==
    /\ pc = "error"
    /\ stdout \in {<<ErrorLine("'id'")>>, <<ErrorLine("'name'")>>}

\* it did so although every module record has its id and its name
FailedOnWellFormedModules ==
    /\ AnalysisFailed
    /\ \A j \in DOMAIN modules : WellFormed(modules[j])

\* routes naming an absent module neither fail the analysis nor change a
\* candidate
AbsentOwnersTolerated ==
    /\ ~FailedOnWellFormedModules
    /\ Analyzed =>
           candidates =
               analyze_conversion_candidates(
                   modules, SelectSeq(routes, NamesNoAbsentModule))

\* C18 as stated: routes naming a moduleId absent from the module list never
\* fail the analysis and change no candidate; the route count of every module
\* is the number of routes whose moduleId equals its id; a route without
\* moduleId is counted under "unknown".
C18_RouteCountIsNamingRoutes ==
    /\ AbsentOwnersTolerated
    /\ Analyzed =>
           \A i \in DOMAIN candidates :
               candidates[i].routes =
                   RoutesNaming(modules[ModuleIndex(candidates[i].id)])

\* C18 amended: as above, except that a module whose id is "unknown" is also
\* credited with the routes that have no moduleId.
C18_RouteCountWithUnknownOwner ==
    /\ AbsentOwnersTolerated
    /\ Analyzed =>
           \A i \in DOMAIN candidates :
               candidates[i].routes =
                   RoutesNaming(modules[ModuleIndex(candidates[i].id)])
                   + (IF candidates[i].id = "unknown" THEN Ownerless ELSE 0)

\* a route of an absent module and a route without moduleId were fetched, and
\* the module with the id "unknown" has the latter as its one route
C18_Witness ==
    /\ Analyzed
    /\ \E i \in DOMAIN routes : NamesAbsentModule(routes[i])
    /\ Ownerless = 1
    /\ \E i \in DOMAIN candidates :
           /\ candidates[i].id = "unknown"
           /\ candidates[i].routes = 1
           /\ RoutesNaming(modules[ModuleIndex("unknown")]) = 0

(***************************************************************************)
(* Claims about a run against the service (checked under SpecLive, Spec    *)
(* and SpecTopics)                                                         *)
(***************************************************************************)
\* the second pass produced its plan
PlannedAgain == pc = "plan" /\ Len(first) = 1

BothFetched == pc \in {"routes", "candidates", "plan"} \/ AnalysisFailed

\* C15: the module list and the route list of a pass are those of one state
\* of the inventory, also when the inventory changes between the two fetches.
C15_OneSnapshot ==
    BothFetched =>
        \E k \in DOMAIN history :
            modules = history[k].modules /\ routes = history[k].routes

\* the report could not be fetched
LoadFailed ==
    /\ pc \in {"loaded", "topics", "targets"}
    /\ \E k \in DOMAIN stdout :
           stdout[k] = "Error getting modules: CalledProcessError"

\* the run goes on as it does over a report without modules
OrdinaryEmptyRun ==
    /\ pc \in {"loaded", "topics", "targets"}
    /\ loaded_modules = <<>>
    /\ \E k \in DOMAIN stdout : stdout[k] = "Found 0 modules"

\* C16: a failed fetch ends the run in a "no data" outcome and is never
\* turned into the ordinary result of a run over zero modules.
C16_FetchFailureIsNoData == LoadFailed => ~OrdinaryEmptyRun

\* C17: a module record without id or name only loses its own candidate:
\* the pass still produces the candidates of the well-formed records.
C17_MalformedRecordOnlySkipped ==
    \/ pc \in {"start", "modules", "routes"}
    \/ pc = "error" /\ ~AnalysisFailed
    \/ /\ Analyzed
       /\ candidates =
              analyze_conversion_candidates(SelectSeq(modules, WellFormed),
                                            routes)

(***************************************************************************)
(* Claims about the phase planner (checked under SpecPhases)               *)
(***************************************************************************)
Planned == pc = "plan"

\* the module list of the emitted phase n, empty when phase n is not emitted
Listed(n) ==
    LET at == {i \in DOMAIN phases : phases[i].phase = n}
    IN  IF at = {} THEN <<>> ELSE phases[CHOOSE i \in at : TRUE].modules

ListedIds(n) == {Listed(n)[i].id : i \in DOMAIN Listed(n)}

\* the phase predicates as the plan states them ("test" case-insensitive)
Qualifies(n, c) ==
    CASE n = 1 -> c.priority >= 20 /\ c.is_hot_reloadable
      [] n = 2 -> /\ c.priority >= 15
                  /\ ~c.is_hot_reloadable
                  /\ ~Contains(Lower(c.id), "test")
      [] n = 3 -> 10 <= c.priority /\ c.priority < 15
      [] n = 4 -> 0 < c.priority /\ c.priority < 10

Qualifying(n) == {i \in DOMAIN candidates : Qualifies(n, candidates[i])}

QualifyingIds(n) == {candidates[i].id : i \in Qualifying(n)}

\* phase n lists at most cap modules, all qualifying, and leaves out no
\* qualifying candidate of higher priority than a listed one
CappedPhase(n, cap) ==
    /\ Len(Listed(n)) <= cap
    /\ ListedIds(n) \subseteq QualifyingIds(n)
    /\ \A i \in Qualifying(n) :
           candidates[i].id \notin ListedIds(n) =>
               \A k \in DOMAIN Listed(n) :
                   candidates[i].priority <= Listed(n)[k].priority

\* C8: Phase 2 lists at most 5 modules and Phase 3 at most 8; every listed
\* module satisfies its phase's predicate; no qualifying candidate that is
\* left out has a strictly higher priority than a listed one.
C8_CappedPhases ==
    Planned => CappedPhase(2, 5) /\ CappedPhase(3, 8)

\* more than 5 and more than 8 candidates qualify, 5 and 8 are listed, and a
\* listed Phase 2 module has a higher priority than one left out
C8_Witness ==
    /\ Planned
    /\ Cardinality(Qualifying(2)) > 5 /\ Len(Listed(2)) = 5
    /\ Cardinality(Qualifying(3)) > 8 /\ Len(Listed(3)) = 8
    /\ \E i \in Qualifying(2) :
           /\ candidates[i].id \notin ListedIds(2)
           /\ \E k \in DOMAIN Listed(2) :
                  candidates[i].priority < Listed(2)[k].priority

\* phase n lists exactly the qualifying candidates, each once
UncappedPhase(n) ==
    /\ ListedIds(n) = QualifyingIds(n)
    /\ Len(Listed(n)) = Cardinality(Qualifying(n))

C10_PhasesEmittedWhenNonEmpty ==
    Planned =>
        /\ \A n \in 1..4 :
               (\E i \in DOMAIN phases : phases[i].phase = n)
                   <=> Qualifying(n) # {}
        /\ \A i \in DOMAIN phases :
               phases[i].phase \in 1..4 /\ Len(phases[i].modules) > 0
        /\ \A i, j \in DOMAIN phases :
               i < j => phases[i].phase < phases[j].phase

\* a plan with phases 2 and 4 only: phases 1 and 3 have no candidate
C10_Witness ==
    /\ Planned
    /\ Len(phases) = 2
    /\ phases[1].phase = 2 /\ phases[2].phase = 4
    /\ Qualifying(1) = {} /\ Qualifying(3) = {}

\* the phases whose predicate, as the planner evaluates it, holds of c
SatisfiedPhases(c) ==
    {n \in 1..4 :
        CASE n = 1 -> InPhase1(c) [] n = 2 -> InPhase2(c)
          [] n = 3 -> InPhase3(c) [] n = 4 -> InPhase4(c)}

\* the phases of the plan that list the id
ListingPhases(id) == {n \in 1..4 : id \in ListedIds(n)}

\* every combination of priority, hot-reload flag and kind of id
PhaseCandidates ==
    [id : {"mod.plain", "mod.test", "Mod.TEST"}, priority : 1..MaxPriority,
     is_hot_reloadable : BOOLEAN]

\* C11 as stated: the predicates overlap, some candidate (some priority,
\* hot-reload flag and id) satisfies the predicate of more than one phase and
\* is listed in more than one phase of the plan.
C11_SomeCandidateInTwoPhases ==
    Planned =>
        \/ \E c \in PhaseCandidates : Cardinality(SatisfiedPhases(c)) > 1
        \/ \E i \in DOMAIN candidates :
               Cardinality(ListingPhases(candidates[i].id)) > 1

\* C11 amended: the four predicates are mutually exclusive: no combination of
\* priority, hot-reload flag and id satisfies more than one of them, and no
\* candidate is listed in more than one phase of a plan.
C11_PhasesMutuallyExclusive ==
    Planned =>
        /\ \A c \in PhaseCandidates : Cardinality(SatisfiedPhases(c)) <= 1
        /\ \A i \in DOMAIN candidates :
               /\ Cardinality(SatisfiedPhases(candidates[i])) <= 1
               /\ Cardinality(ListingPhases(candidates[i].id)) <= 1

\* a plan with all four phases, each candidate in at most one of them
C11_Witness ==
    /\ Planned
    /\ Len(phases) = 4
    /\ \A n \in 1..4 : Len(Listed(n)) > 0
    /\ \A i \in DOMAIN candidates :
           Cardinality(ListingPhases(candidates[i].id)) <= 1

\* not hot-reloadable, priority in [15, 20), "test" in the id
TestGap(c) ==
    /\ ~c.is_hot_reloadable
    /\ 15 <= c.priority /\ c.priority < 20
    /\ Contains(c.id, "test")

CandidateIndex(id) == CHOOSE i \in DOMAIN candidates : candidates[i].id = id

\* C13: the candidate list is sorted by non-increasing priority, candidates of
\* equal priority keep the relative order of their modules in the input list,
\* and every phase lists its modules in the order of the candidate list.
C13_SortedStableOrder ==
    Planned =>
        /\ \A i, j \in DOMAIN candidates :
               i < j =>
                   /\ candidates[i].priority >= candidates[j].priority
                   /\ candidates[i].priority = candidates[j].priority =>
                          ModuleIndex(candidates[i].id)
                              < ModuleIndex(candidates[j].id)
        /\ \A n \in 1..4 : \A k, l \in DOMAIN Listed(n) :
               k < l =>
                   CandidateIndex(Listed(n)[k].id)
                       < CandidateIndex(Listed(n)[l].id)

\* the sort moved a candidate ahead of an earlier module, two candidates of
\* equal priority from different places of the input kept their order, and a
\* phase lists several modules
C13_Witness ==
    /\ Planned
    /\ \E i, j \in DOMAIN candidates :
           /\ i < j
           /\ ModuleIndex(candidates[i].id) > ModuleIndex(candidates[j].id)
    /\ \E i, j \in DOMAIN candidates :
           /\ i < j
           /\ candidates[i].priority = candidates[j].priority
           /\ candidates[i].name # candidates[j].name
    /\ \E n \in 1..4 : Len(Listed(n)) > 1

(***************************************************************************)
(* Claims about the topic classifier (checked under SpecTopics)            *)
(***************************************************************************)
Classified == pc \in {"topics", "targets"}

Topics ==
    {"AI/LLM", "Translation", "Concept", "Joy/Resonance", "Storage", "Security",
     "Core System", "User Management", "Communication",
     "Analysis/Intelligence", "API/Documentation", "Future/Knowledge", "Other"}

TopicRules ==
    << [keywords |-> {"ai", "llm", "llm.future", "llm.response", "ucore.llm"},
        topic |-> "AI/LLM"],
       [keywords |-> {"translation", "translate", "language"},
        topic |-> "Translation"],
       [keywords |-> {"concept", "concept-registry", "userconcept"},
        topic |-> "Concept"],
       [keywords |-> {"joy", "resonance", "ucore.joy", "resonance-joy"},
        topic |-> "Joy/Resonance"],
       [keywords |-> {"storage", "distributed-storage", "storage-endpoints"},
        topic |-> "Storage"],
       [keywords |-> {"security", "auth", "access-control", "digital-signature",
                      "identity"},
        topic |-> "Security"],
       [keywords |-> {"core", "breath", "composer", "delta", "phase", "plan",
                      "relations"},
        topic |-> "Core System"],
       [keywords |-> {"user", "user-contributions"},
        topic |-> "User Management"],
       [keywords |-> {"realtime", "event-streaming", "push-notifications"},
        topic |-> "Communication"],
       [keywords |-> {"analysis", "intelligent", "caching", "load-balancing"},
        topic |-> "Analysis/Intelligence"],
       [keywords |-> {"openapi", "spec", "reflect", "oneshot"},
        topic |-> "API/Documentation"],
       [keywords |-> {"future", "knowledge"}, topic |-> "Future/Knowledge"] >>

\* the rules with a keyword that occurs, ignoring case, in the id or the name
MatchingRules(id, name) ==
    {n \in DOMAIN TopicRules :
        \E k \in TopicRules[n].keywords :
            Contains(Lower(id), k) \/ Contains(Lower(name), k)}

FirstMatchTopic(id, name) ==
    IF MatchingRules(id, name) = {} THEN "Other"
    ELSE TopicRules[CHOOSE n \in MatchingRules(id, name) :
                        \A m \in MatchingRules(id, name) : n <= m].topic

\* C7: the topic of a module is the topic of the lowest-numbered rule with a
\* keyword occurring, ignoring case, in its id or its name, and Other exactly
\* when no rule has one; the declared features play no part.
C7_FirstMatchWins ==
    Classified =>
        \A i \in DOMAIN loaded_modules :
            /\ topic_mapping[loaded_modules[i].id] =
                   FirstMatchTopic(loaded_modules[i].id, loaded_modules[i].name)
            /\ topic_mapping[loaded_modules[i].id] = "Other"
                   <=> MatchingRules(loaded_modules[i].id,
                                     loaded_modules[i].name) = {}

\* ai-concept-engine matches rules 1 and 3 and is AI/LLM; codex.storage
\* declares the feature AI and is Storage
C7_Witness ==
    /\ Classified
    /\ "ai-concept-engine" \in DOMAIN topic_mapping
    /\ {1, 3} \subseteq MatchingRules("ai-concept-engine", "Engine")
    /\ topic_mapping["ai-concept-engine"] = "AI/LLM"
    /\ Len(loaded_modules) = Len(topic_in)
    /\ \E i \in DOMAIN topic_in :
           /\ "features" \in DOMAIN topic_in[i]
           /\ InList("AI", topic_in[i].features)
           /\ topic_mapping[topic_in[i].id] = "Storage"

(***************************************************************************)
(* Claims about the consolidation targets (checked under SpecTopics)       *)
(***************************************************************************)
Targeted == pc = "targets"

\* the table of suggestTarget: topic and target
SuggestTarget ==
    { <<"AI/LLM", "AIModule">>, <<"Translation", "TranslationModule">>,
      <<"Concept", "ConceptModule">>, <<"Joy/Resonance", "JoyModule">>,
      <<"Storage", "StorageModule">>, <<"Security", "SecurityModule">>,
      <<"User Management", "UserModule">>,
      <<"Communication", "CommunicationModule">>,
      <<"Analysis/Intelligence", "IntelligenceModule">>,
      <<"API/Documentation", "APIModule">>,
      <<"Future/Knowledge", "KnowledgeModule">> }

LoadedIds == {loaded_modules[i].id : i \in DOMAIN loaded_modules}

\* C19: the suggested target is a lookup on the topic: a module of one of the
\* 11 topics of the table gets the target the table names, every module gets
\* exactly one suggestion, and modules of the same topic get the same target.
C19_TargetIsLookupOnTopic ==
    Targeted =>
        /\ DOMAIN consolidation_targets = LoadedIds
        /\ \A id \in LoadedIds : \A pair \in SuggestTarget :
               topic_mapping[id] = pair[1] =>
                   consolidation_targets[id] = pair[2]
        /\ \A id1, id2 \in LoadedIds :
               topic_mapping[id1] = topic_mapping[id2] =>
                   consolidation_targets[id1] = consolidation_targets[id2]

\* two modules of one topic of the table with the target the table names
C19_Witness ==
    /\ Targeted
    /\ \E id1, id2 \in LoadedIds :
           /\ id1 # id2
           /\ topic_mapping[id1] = "Security"
           /\ topic_mapping[id2] = "Security"
           /\ consolidation_targets[id1] = "SecurityModule"
           /\ consolidation_targets[id2] = "SecurityModule"

\* C20 as stated: a module is kept separate exactly when its topic is Other,
\* so a module of any other topic, Core System included, gets a named target.
C20_KeptSeparateIffOther ==
    Targeted =>
        \A id \in LoadedIds :
            consolidation_targets[id] = "Keep Separate"
                <=> topic_mapping[id] = "Other"

\* C20 amended: a module is kept separate exactly when its topic is Other or
\* Core System, the two topics without an entry in the table.
C20_KeptSeparateIffOtherOrCore ==
    Targeted =>
        \A id \in LoadedIds :
            consolidation_targets[id] = "Keep Separate"
                <=> topic_mapping[id] \in {"Other", "Core System"}

\* a Core System module kept separate next to a module with a named target
C20_Witness ==
    /\ Targeted
    /\ \E id \in LoadedIds :
           /\ topic_mapping[id] = "Core System"
           /\ consolidation_targets[id] = "Keep Separate"
    /\ \E id \in LoadedIds : consolidation_targets[id] # "Keep Separate"

(***************************************************************************)
(* analyze_routes_detailed.py: route placement and module cohesion         *)
(***************************************************************************)
\* s.startswith(p)
StartsWith(s, p) == Len(s) >= Len(p) /\ SubSeq(s, 1, Len(p)) = p

\* s.replace(old, new): every occurrence, left to right, without overlap
RECURSIVE Replace(_, _, _)
Replace(s, old, new) ==
    IF Len(s) = 0 THEN ""
    ELSE IF StartsWith(s, old)
         THEN new \o Replace(SubSeq(s, Len(old) + 1, Len(s)), old, new)
         ELSE SubSeq(s, 1, 1) \o Replace(SubSeq(s, 2, Len(s)), old, new)

\* max(0, n)
Max0(n) == IF n < 0 THEN 0 ELSE n

\* the dict analyze_route_placement starts from
DefaultAnalysis(r) ==
    [current_module |-> r.moduleId, suggested_module |-> r.moduleId,
     should_move |-> FALSE, reason |-> "", route_appropriate |-> TRUE,
     route_suggestion |-> r.route, issues |-> <<>>]

\* the four assignments under `if not module_id...` of one family
Move(a, fits, target, why, issue) ==
    IF fits THEN a
    ELSE [a EXCEPT !.suggested_module = target, !.should_move = TRUE,
                   !.reason = why, !.issues = Append(@, issue)]

\* the if/elif chain over the families of routes
PlacementByFamily(a, r) ==
    LET route  == r.route
        name   == Lower(r.apiName)
        module == r.moduleId
    IN  IF StartsWith(route, "/ai/") \/ Contains(name, "ai")
        THEN Move(a, StartsWith(module, "ai"), "ai-analysis",
                  "AI-related functionality should be in AI module",
                  "AI route in non-AI module")
        ELSE IF StartsWith(route, "/translation/") \/ Contains(name, "translate")
        THEN Move(a, StartsWith(module, "translation"),
                  "translation",
                  "Translation functionality should be in Translation module",
                  "Translation route in non-translation module")
        ELSE IF StartsWith(route, "/concept/") \/ Contains(name, "concept")
        THEN Move(a, StartsWith(module, "concept"), "codex.concept",
                  "Concept functionality should be in Concept module",
                  "Concept route in non-concept module")
        ELSE IF StartsWith(route, "/llm/") \/ Contains(name, "llm")
        THEN Move(a, StartsWith(module, "ai"), "ai-analysis",
                  "LLM functionality should be in AI module",
                  "LLM route in non-AI module")
        ELSE IF StartsWith(route, "/joy/") \/ Contains(name, "joy")
        THEN Move(a, StartsWith(module, "joy"), "codex.joy",
                  "Joy functionality should be consolidated",
                  "Joy route scattered across modules")
        ELSE IF StartsWith(route, "/resonance/") \/ Contains(name, "resonance")
        THEN Move(a, StartsWith(module, "resonance"),
                  "codex.resonance",
                  "Resonance functionality should be consolidated",
                  "Resonance route scattered across modules")
        ELSE IF StartsWith(route, "/storage/")
                  /\ ~StartsWith(route, "/storage-endpoints/")
        THEN Move(a, module = "codex.storage", "codex.storage",
                  "Storage functionality should be in Storage module",
                  "Storage route in non-storage module")
        ELSE a

\* an LLM route outside /llm/
LlmRouteName(a, r) ==
    IF Contains(r.apiName, "llm-") /\ ~StartsWith(r.route, "/llm/")
    THEN [a EXCEPT !.route_appropriate = FALSE,
                   !.route_suggestion =
                       IF StartsWith(r.route, "/ai/")
                       THEN Replace(r.route, "/ai/", "/llm/")
                       ELSE "/llm" \o r.route,
                   !.issues = Append(@, "LLM route not under /llm/ path")]
    ELSE a

\* a translation route outside /translation/
TranslationRouteName(a, r) ==
    IF Contains(r.apiName, "translate") /\ ~StartsWith(r.route, "/translation/")
    THEN [a EXCEPT !.route_appropriate = FALSE,
                   !.route_suggestion =
                       IF StartsWith(r.route, "/llm/")
                       THEN Replace(r.route, "/llm/", "/translation/")
                       ELSE "/translation" \o r.route,
                   !.issues =
                       Append(@, "Translation route not under /translation/ path")]
    ELSE a

\* translation served by an LLM module
DuplicateFunctionality(a, r) ==
    IF Contains(r.apiName, "translate") /\ Contains(r.moduleId, "llm")
    THEN [a EXCEPT !.issues = Append(@,
              "Translation functionality in LLM module - should be separate")]
    ELSE a

analyze_route_placement(r) ==
    DuplicateFunctionality(
        TranslationRouteName(
            LlmRouteName(PlacementByFamily(DefaultAnalysis(r), r), r), r), r)

\* analysis = analyze_route_placement(route); analysis.update(route)
RouteAnalysis(r) == r @@ analyze_route_placement(r)

\* the concern one route adds to route_types, None when it adds none
RouteType(r) ==
    LET route == r.route
        name  == Lower(r.apiName)
    IN  IF StartsWith(route, "/ai/") \/ Contains(name, "ai") THEN "ai"
        ELSE IF StartsWith(route, "/translation/") \/ Contains(name, "translate")
        THEN "translation"
        ELSE IF StartsWith(route, "/concept/") \/ Contains(name, "concept")
        THEN "concept"
        ELSE IF StartsWith(route, "/joy/") \/ Contains(name, "joy") THEN "joy"
        ELSE IF StartsWith(route, "/resonance/") \/ Contains(name, "resonance")
        THEN "resonance"
        ELSE IF StartsWith(route, "/storage/") \/ Contains(name, "storage")
        THEN "storage"
        ELSE None

\* route_types after the loop over the routes of a module
RouteTypes(rs) == {RouteType(rs[i]) : i \in 1..Len(rs)} \ {None}

\* the orders in which a set can be iterated
RECURSIVE Orders(_)
Orders(S) ==
    IF S = {} THEN {<<>>}
    ELSE UNION {{<<x>> \o o : o \in Orders(S \ {x})} : x \in S}

\* if len(route_types) > 2: issues.append(...), order being the iteration
\* order of route_types in the join
MixedConcernsAtTwo(order) ==
    IF Len(order) >= 2
    THEN <<"Module handles multiple concerns: " \o Join(order, ", ")>>
    ELSE <<>>
MixedConcerns(order) ==
    IF Len(order) > 2
    THEN <<"Module handles multiple concerns: " \o Join(order, ", ")>>
    ELSE <<>>

\* `tag in route_types and module_id != home`
ScatteredAnywhere(route_types, module_id, tag, home) == tag \in route_types
Scattered(route_types, module_id, tag, home) ==
    tag \in route_types /\ module_id # home

\* the issues and the consolidations of the two scattering checks
ScatterFindingsDoubled(route_types, module_id) ==
    LET joy == Scattered(route_types, module_id, "joy", "codex.joy")
        res == Scattered(route_types, module_id, "resonance", "codex.resonance")
        j   == <<"Joy functionality scattered across modules",
                 "Consolidate joy routes into codex.joy module">>
        r   == <<"Resonance functionality scattered across modules",
                 "Consolidate resonance routes into codex.resonance module">>
    IN  [issues |-> (IF joy THEN j ELSE <<>>) \o (IF res THEN r ELSE <<>>),
         suggested |-> (IF joy THEN <<j[2]>> ELSE <<>>)
                           \o (IF res THEN <<r[2]>> ELSE <<>>)]
ScatterFindings(route_types, module_id) ==
    LET joy == Scattered(route_types, module_id, "joy", "codex.joy")
        res == Scattered(route_types, module_id, "resonance", "codex.resonance")
    IN  [issues |->
             (IF joy THEN <<"Joy functionality scattered across modules">>
              ELSE <<>>)
             \o (IF res
                 THEN <<"Resonance functionality scattered across modules">>
                 ELSE <<>>),
         suggested |->
             (IF joy THEN <<"Consolidate joy routes into codex.joy module">>
              ELSE <<>>)
             \o (IF res
                 THEN <<"Consolidate resonance routes into codex.resonance module">>
                 ELSE <<>>)]

\* max(0, 10 - len(issues) - len(route_types))
CohesionScoreIgnoresIssues(issues, route_types) ==
    Max0(10 - Cardinality(route_types))
CohesionScore(issues, route_types) ==
    Max0(10 - Len(issues) - Cardinality(route_types))

\* module_analysis[module_id] for the routes rs of the module, order being
\* the order in which route_types is iterated
Cohesion(module_id, rs, order) ==
    LET route_types == RouteTypes(rs)
        found       == ScatterFindings(route_types, module_id)
        issues      == MixedConcerns(order) \o found.issues
    IN  [route_count |-> Len(rs),
         concerns |-> order,
         issues |-> issues,
         suggested_consolidations |-> found.suggested,
         cohesion_score |-> CohesionScore(issues, route_types)]

\* modules[route['moduleId']].append(route): the keys and the routes of a key
GroupKeys(rd) == {rd[i].moduleId : i \in 1..Len(rd)}

OfModule(module_id, r) == r.moduleId = module_id

Grouped(rd, module_id) ==
    LET Mine(r) == OfModule(module_id, r) IN SelectSeq(rd, Mine)

\* analyze_module_cohesion(modules), orders[m] being the iteration order of
\* the route_types of module m
analyze_module_cohesion(rd, orders) ==
    [m \in GroupKeys(rd) |-> Cohesion(m, Grouped(rd, m), orders[m])]

\* the iteration orders the run can meet, one per module of ms
RECURSIVE IterationOrders(_, _)
IterationOrders(rd, ms) ==
    IF ms = {} THEN {<<>>}
    ELSE LET m == CHOOSE x \in ms : TRUE
         IN  {(m :> o) @@ rest :
                  o \in Orders(RouteTypes(Grouped(rd, m))),
                  rest \in IterationOrders(rd, ms \ {m})}

\* main: route_analyses
AnalyzeRoutePlacements ==
    /\ pc = "stdin"
    /\ route_analyses' = [i \in 1..Len(route_data) |-> RouteAnalysis(route_data[i])]
    /\ pc' = "placed"
    /\ UNCHANGED <<inventory, planVars, scoreVars, topicVars, stdout, runVars,
                   route_data, module_analysis, refVars, markerVars>>

\* main: module_analysis
AnalyzeModuleCohesion ==
    /\ pc = "placed"
    /\ \E orders \in IterationOrders(route_data, GroupKeys(route_data)) :
           module_analysis' = analyze_module_cohesion(route_data, orders)
    /\ pc' = "cohesion"
    /\ UNCHANGED <<inventory, planVars, scoreVars, topicVars, stdout, runVars,
                   route_data, route_analyses, refVars, markerVars>>

NextRoutes == AnalyzeRoutePlacements \/ AnalyzeModuleCohesion

\* the routes of the report on stdin, without their module
RouteKinds ==
    <<[route |-> "/ai/analyze", apiName |-> "ai-analyze", verb |-> "POST"],
      [route |-> "/translation/run", apiName |-> "translate-text", verb |-> "POST"],
      [route |-> "/concept/list", apiName |-> "concept-list", verb |-> "GET"],
      [route |-> "/joy/amplify", apiName |-> "joy-amplify", verb |-> "POST"],
      [route |-> "/resonance/calc", apiName |-> "resonance-calc", verb |-> "POST"],
      [route |-> "/storage/put", apiName |-> "storage-put", verb |-> "PUT"],
      [route |-> "/joy/chain", apiName |-> "joy-chain", verb |-> "GET"],
      [route |-> "/ai/translate", apiName |-> "llm-translate", verb |-> "POST"],
      [route |-> "/storage-endpoints/list", apiName |-> "list-endpoints", verb |-> "GET"],
      [route |-> "/health", apiName |-> "health-check", verb |-> "GET"]>>

\* the modules the routes are registered by, one layout per row
Layouts ==
    <<[k \in 1..Len(RouteKinds) |-> "codex.core"],
      [k \in 1..Len(RouteKinds) |-> "codex.joy"],
      <<"ai-analysis", "translation.llm", "codex.concept", "codex.joy",
        "codex.resonance", "codex.storage", "codex.joy", "translation.llm",
        "codex.storage", "codex.core">>>>

RouteOf(k, layout) == [moduleId |-> layout[k]] @@ RouteKinds[k]

\* the routes of the chosen kinds, in the order of RouteKinds
RouteData(chosen, layout) ==
    LET Chosen(k) == k \in chosen
        ks == SelectSeq([k \in 1..Len(RouteKinds) |-> k], Chosen)
    IN  [i \in 1..Len(ks) |-> RouteOf(ks[i], layout)]

InitRoutes ==
    /\ Idle /\ NoCall /\ NoTopics /\ NoRefRun /\ NoMarkerRun
    /\ stdout = <<>>
    /\ pc = "stdin"
    /\ \E chosen \in SUBSET (1..Min(MaxRouteData, Len(RouteKinds))),
          l \in 1..Len(Layouts) :
           route_data = RouteData(chosen, Layouts[l])
    /\ route_analyses = None
    /\ module_analysis = None

SpecRoutes == InitRoutes /\ [][NextRoutes]_vars

(***************************************************************************)
(* Claims about the cohesion report                                        *)
(***************************************************************************)
Cohesive == pc = "cohesion"

\* the concern families in the order a route is tested against them
ConcernFamilies ==
    <<[tag |-> "ai", prefix |-> "/ai/", word |-> "ai"],
      [tag |-> "translation", prefix |-> "/translation/", word |-> "translate"],
      [tag |-> "concept", prefix |-> "/concept/", word |-> "concept"],
      [tag |-> "joy", prefix |-> "/joy/", word |-> "joy"],
      [tag |-> "resonance", prefix |-> "/resonance/", word |-> "resonance"],
      [tag |-> "storage", prefix |-> "/storage/", word |-> "storage"]>>

\* the families a route matches, by path prefix or by name
FamiliesOf(r) ==
    {k \in 1..Len(ConcernFamilies) :
         \/ StartsWith(r.route, ConcernFamilies[k].prefix)
         \/ Contains(Lower(r.apiName), ConcernFamilies[k].word)}

\* the tags of the routes of module m, a route giving the tag of the first
\* family it matches
ConcernTags(m) ==
    {ConcernFamilies[CHOOSE k \in FamiliesOf(route_data[i]) :
                         \A j \in FamiliesOf(route_data[i]) : k <= j].tag :
         i \in {j \in 1..Len(route_data) :
                    /\ route_data[j].moduleId = m
                    /\ FamiliesOf(route_data[j]) # {}}}

RoutesIn(m) == {i \in 1..Len(route_data) : route_data[i].moduleId = m}

HasIssue(m, text) ==
    \E i \in 1..Len(module_analysis[m].issues) :
        StartsWith(module_analysis[m].issues[i], text)

\* C21: the report of a module has a "Module handles multiple concerns" issue
\* exactly when its routes give more than two distinct concern tags; the
\* concerns listed are these tags, each once, and at most one per route.
C21_MixedConcernsIffMoreThanTwoTags ==
    Cohesive =>
        /\ DOMAIN module_analysis = GroupKeys(route_data)
        /\ \A m \in DOMAIN module_analysis :
               LET a == module_analysis[m]
               IN  /\ HasIssue(m, "Module handles multiple concerns")
                       <=> Cardinality(ConcernTags(m)) > 2
                   /\ {a.concerns[i] : i \in 1..Len(a.concerns)} = ConcernTags(m)
                   /\ Len(a.concerns) = Cardinality(ConcernTags(m))
                   /\ Len(a.concerns) <= Cardinality(RoutesIn(m))
                   /\ a.route_count = Cardinality(RoutesIn(m))

\* a module with three tags and the issue, one of its routes being under
\* /joy/ and counted as ai because of its name
C21_Witness ==
    /\ Cohesive
    /\ \E m \in DOMAIN module_analysis :
           /\ HasIssue(m, "Module handles multiple concerns: ")
           /\ ConcernTags(m) = {"ai", "concept", "storage"}
           /\ \E i \in RoutesIn(m) : route_data[i].route = "/joy/chain"
           /\ \A i \in RoutesIn(m) : route_data[i].route # "/ai/analyze"

\* C22: the joy scattering issue and its recommendation are reported exactly
\* when joy is among the tags of a module other than codex.joy, and the
\* resonance issue and recommendation exactly when resonance is among the
\* tags of a module other than codex.resonance.
C22_ScatteringIffTagAwayFromHome ==
    Cohesive =>
        \A m \in DOMAIN module_analysis :
            LET a == module_analysis[m]
                joy == "joy" \in ConcernTags(m) /\ m # "codex.joy"
                res == "resonance" \in ConcernTags(m) /\ m # "codex.resonance"
            IN  /\ InList("Joy functionality scattered across modules", a.issues)
                       <=> joy
                /\ InList("Consolidate joy routes into codex.joy module",
                          a.suggested_consolidations) <=> joy
                /\ InList("Resonance functionality scattered across modules",
                          a.issues) <=> res
                /\ InList("Consolidate resonance routes into codex.resonance module",
                          a.suggested_consolidations) <=> res
                /\ Len(a.suggested_consolidations)
                       = (IF joy THEN 1 ELSE 0) + (IF res THEN 1 ELSE 0)

\* codex.joy with joy and resonance routes: only resonance is scattered
C22_Witness ==
    /\ Cohesive
    /\ \E m \in DOMAIN module_analysis :
           /\ m = "codex.joy"
           /\ {"joy", "resonance"} \subseteq ConcernTags(m)
           /\ module_analysis[m].suggested_consolidations
                  = <<"Consolidate resonance routes into codex.resonance module">>

\* C23: cohesion_score is max(0, 10 - issues - distinct tags), never negative.
C23_CohesionScoreFormula ==
    Cohesive =>
        \A m \in DOMAIN module_analysis :
            LET a == module_analysis[m]
            IN  /\ a.cohesion_score
                       = Max0(10 - Len(a.issues) - Cardinality(ConcernTags(m)))
                /\ a.cohesion_score >= 0

\* three tags and two issues give 5
C23_Witness ==
    /\ Cohesive
    /\ \E m \in DOMAIN module_analysis :
           /\ Cardinality(ConcernTags(m)) = 3
           /\ Len(module_analysis[m].issues) = 2
           /\ module_analysis[m].cohesion_score = 5

\* C29: cohesion_score is between 1 and 10, there being at most six tags
\* and at most three issues.
C29_CohesionScoreWithinOneAndTen ==
    Cohesive =>
        \A m \in DOMAIN module_analysis :
            /\ module_analysis[m].cohesion_score \in 1..10
            /\ Len(module_analysis[m].concerns) <= 6
            /\ Len(module_analysis[m].issues) <= 3

\* the lowest score: six tags and three issues in one module
C29_Witness ==
    /\ Cohesive
    /\ \E m \in DOMAIN module_analysis :
           /\ Len(module_analysis[m].concerns) = 6
           /\ Len(module_analysis[m].issues) = 3
           /\ module_analysis[m].cohesion_score = 1

(***************************************************************************)
(* Claims about the placement of a route                                   *)
(***************************************************************************)
Placed == pc \in {"placed", "cohesion"}

\* C25: should_move is true exactly when suggested_module differs from
\* current_module, also for the modules codex.concept, codex.joy and
\* codex.resonance; when should_move is false both are the same module.
C25_ShouldMoveIffSuggestionDiffers ==
    Placed =>
        \A i \in 1..Len(route_analyses) :
            LET a == route_analyses[i]
            IN  /\ a.should_move <=> a.suggested_module # a.current_module
                /\ ~a.should_move => a.suggested_module = a.current_module

(***************************************************************************)
(* add-spec-references.py against the node store of the service            *)
(***************************************************************************)
\* the keys of spec_mappings
SpecMappingKeys ==
    {"codex.hello", "codex.core", "codex.storage", "codex.authentication",
     "codex.user", "codex.breath", "codex.delta", "codex.hydrate",
     "codex.adapter", "codex.concept", "codex.ai",
     "codex.llm-future-knowledge", "codex.self-update",
     "codex.ucore-llm-response-handler", "codex.system-metrics",
     "codex.service-discovery", "codex.graph-query",
     "codex.user-contributions", "codex.llm-response-handler",
     "codex.intelligent-caching", "codex.concept-image",
     "codex.realtime-news-stream", "codex.load-balancing", "codex.security",
     "codex.event-streaming", "codex.realtime", "codex.push-notification",
     "codex.spec", "codex.spec-driven", "codex.future-knowledge",
     "codex.test-dynamic", "codex.dynamic-module-example",
     "codex.endpoint-generation-demo", "codex.ucore-resonance-engine",
     "codex.news-feed", "codex.image-analysis", "codex.translation",
     "codex.joy-calculator", "codex.ucore-joy", "codex.resonance-joy",
     "codex.comprehensive-ai", "codex.ai-analysis",
     "codex.realtime-news-stream-simple"}

\* spec_mappings.get(module_id): every value is the key with "codex."
\* replaced by "codex.spec."
spec_mappings(module_id) ==
    IF module_id \in SpecMappingKeys
    THEN "codex.spec." \o SubSeq(module_id, Len("codex.") + 1, Len(module_id))
    ELSE ""

\* module_details.get('meta', {}).get('specReference'), "" when there is none
SpecReferenceOf(node) ==
    IF "meta" \in DOMAIN node THEN Get(node.meta, "specReference", "") ELSE ""

\* module_data['meta']['specReference'] = spec_reference, meta being created
\* when the node has none
WithSpecReference(node, spec_reference) ==
    IF "meta" \in DOMAIN node
    THEN [node EXCEPT !.meta = [specReference |-> spec_reference] @@ @]
    ELSE [meta |-> [specReference |-> spec_reference]] @@ node

\* requests.get(/nodes/{id}): <<the stored node>>, or <<>> for the None of a
\* status other than 200 or of an exception
get_module_details(module_id) ==
    {<<>>} \cup (IF module_id \in DOMAIN nodes THEN {<<nodes[module_id]>>} ELSE {})

\* the module the loop of main is at
RefModule == ref_run.modules[ref_run.i]

RefModuleId == Get(RefModule, "id", "")

\* the loop of main goes on to the next module, or ends
NextModule(run) ==
    [run EXCEPT !.i = @ + 1, !.module_data = <<>>, !.spec_reference = ""]

AfterModule(run) ==
    IF run.i >= Len(run.modules) THEN "ref_done" ELSE "ref_check"

\* main: modules = get_all_modules(); return when there is none
RefGetAllModules ==
    /\ pc = "ref_start"
    /\ \E outcome \in {"ok", "error"} :
           LET ms == IF outcome = "ok" THEN inventory.modules ELSE <<>>
           IN  /\ ref_run' = [ref_run EXCEPT !.modules = ms, !.i = 1]
               /\ pc' = IF Len(ms) = 0 THEN "ref_done" ELSE "ref_check"
    /\ UNCHANGED <<inventory, planVars, scoreVars, topicVars, stdout, runVars,
                   routeVars, nodes, markerVars>>

\* main, one pass of the loop up to the call of update_module_spec_reference
RefCheck ==
    /\ pc = "ref_check"
    /\ IF RefModuleId = ""
       THEN /\ ref_run' = NextModule(ref_run)
            /\ pc' = AfterModule(ref_run)
       ELSE \E module_details \in get_module_details(RefModuleId) :
                IF Len(module_details) = 1
                       /\ SpecReferenceOf(module_details[1]) # ""
                THEN /\ ref_run' = NextModule(ref_run)
                     /\ pc' = AfterModule(ref_run)
                ELSE IF spec_mappings(RefModuleId) = ""
                THEN /\ ref_run' = NextModule(ref_run)
                     /\ pc' = AfterModule(ref_run)
                ELSE /\ ref_run' = [ref_run EXCEPT
                                        !.spec_reference =
                                            spec_mappings(RefModuleId)]
                     /\ pc' = "ref_get"
    /\ UNCHANGED <<inventory, planVars, scoreVars, topicVars, stdout, runVars,
                   routeVars, nodes, markerVars>>

\* update_module_spec_reference up to the PUT: the node is read again and
\* the reference set in the copy
RefUpdateGet ==
    /\ pc = "ref_get"
    /\ \E module_data \in get_module_details(RefModuleId) :
           IF Len(module_data) = 0
           THEN /\ ref_run' = NextModule(ref_run)
                /\ pc' = AfterModule(ref_run)
           ELSE /\ ref_run' = [ref_run EXCEPT
                                   !.module_data =
                                       <<WithSpecReference(
                                             module_data[1],
                                             ref_run.spec_reference)>>]
                /\ pc' = "ref_put"
    /\ UNCHANGED <<inventory, planVars, scoreVars, topicVars, stdout, runVars,
                   routeVars, nodes, markerVars>>

\* update_module_spec_reference: requests.put(/nodes/{id}, json=module_data)
\* and updated_count += 1 when it answers 200
RefUpdatePut ==
    /\ pc = "ref_put"
    /\ \E status \in {"200", "500", "exception"} :
           IF status = "200"
           THEN /\ nodes' = [nodes EXCEPT ![RefModuleId] = ref_run.module_data[1]]
                /\ ref_run' = [NextModule(ref_run) EXCEPT !.updated_count = @ + 1]
           ELSE /\ nodes' = nodes
                /\ ref_run' = NextModule(ref_run)
    /\ pc' = AfterModule(ref_run)
    /\ UNCHANGED <<inventory, planVars, scoreVars, topicVars, stdout, runVars,
                   routeVars, markerVars>>

\* another client of the service gives a node a spec reference of its own
\* while the script runs
OtherClientWrites ==
    /\ pc \in {"ref_check", "ref_get", "ref_put"}
    /\ Len(history) < MaxOtherWrites
    /\ \E id \in DOMAIN nodes :
           /\ nodes' = [nodes EXCEPT
                            ![id] = WithSpecReference(@, "codex.spec.custom")]
           /\ history' = Append(history, id)
    /\ UNCHANGED <<inventory, pc, planVars, scoreVars, topicVars, stdout, first,
                   routeVars, ref_run, markerVars>>

NextRefs ==
    \/ RefGetAllModules
    \/ RefCheck
    \/ RefUpdateGet
    \/ RefUpdatePut
    \/ OtherClientWrites

\* the modules of GET /spec/modules/all, one of them without an id
RefModulePool ==
    {[id |-> "codex.hello", name |-> "Hello"],
     [id |-> "codex.core", name |-> "Core"],
     [id |-> "codex.unmapped", name |-> "Unmapped"],
     [name |-> "Nameless"]}

\* a stored node: without meta, with meta and no reference, with an empty
\* reference, with a reference
StoredNodes(id) ==
    {[id |-> id, typeId |-> "codex.meta/module"],
     [id |-> id, typeId |-> "codex.meta/module", meta |-> [name |-> id]],
     [id |-> id, typeId |-> "codex.meta/module",
      meta |-> [name |-> id, specReference |-> ""]],
     [id |-> id, typeId |-> "codex.meta/module",
      meta |-> [name |-> id, specReference |-> "codex.spec.legacy"]]}

IdsOf(ms) == {ms[i].id : i \in {j \in 1..Len(ms) : "id" \in DOMAIN ms[j]}}

InitRefs ==
    /\ \E ms \in DistinctSeqsUpTo(RefModulePool, MaxRefModules) :
           /\ inventory = [modules |-> ms, routes |-> <<>>]
           /\ \E stored \in [IdsOf(ms) -> UNION {StoredNodes(id) : id \in IdsOf(ms)}] :
                  /\ \A id \in IdsOf(ms) : stored[id].id = id
                  /\ nodes = stored
    /\ ref_run = [modules |-> <<>>, i |-> 0, spec_reference |-> "",
                  module_data |-> <<>>, updated_count |-> 0]
    /\ pc = "ref_start"
    /\ modules = None /\ routes = None /\ candidates = None /\ phases = None
    /\ history = <<>> /\ first = <<>>
    /\ stdout = <<>>
    /\ NoCall /\ NoTopics /\ NoRoutesRun /\ NoMarkerRun

SpecRefs == InitRefs /\ [][NextRefs]_vars

(***************************************************************************)
(* Claims about the spec references                                        *)
(***************************************************************************)
\* C26: add-spec-references never replaces a spec reference: whenever
\* update_module_spec_reference issues its PUT the stored node has no
\* non-empty meta.specReference, whatever another client wrote meanwhile,
\* and a node that has a reference keeps its value over the PUT.
C26_PutNeverReplacesReference ==
    [][pc = "ref_put" /\ pc' # "ref_put" =>
           /\ SpecReferenceOf(nodes[RefModuleId]) = ""
           /\ \A id \in DOMAIN nodes :
                  SpecReferenceOf(nodes[id]) # ""
                      => SpecReferenceOf(nodes'[id]) = SpecReferenceOf(nodes[id])]_vars

(***************************************************************************)
(* mark-modules-for-conversion.py against the spec system of the service   *)
(***************************************************************************)
high_priority_modules ==
    <<"codex.joy", "codex.concept", "codex.userconcept", "codex.breath",
      "codex.composer">>

\* ModuleConversionMarker._calculate_priority
marker_calculate_priority(module) ==
    LET features == Get(module, "features", <<>>)
        id == Lower(module.id)
    IN  (IF InList("AI", features) \/ InList("LLM", features) THEN 20 ELSE 0)
        + (IF InList("Resonance", features) THEN 15 ELSE 0)
        + (IF InList("Real-time", features) THEN 12 ELSE 0)
        + (IF InList("Translation", features) THEN 10 ELSE 0)
        + (IF InList("Security", features) THEN 8 ELSE 0)
        + (IF InList("Graph", features) THEN 6 ELSE 0)
        + (IF Get(module, "isHotReloadable", FALSE) THEN 5 ELSE 0)
        + (IF Contains(id, "spec") THEN 15 ELSE 0)
        + (IF Contains(id, "concept") THEN 12 ELSE 0)

\* ModuleConversionMarker._determine_strategy
marker_determine_strategy(module) ==
    LET features == Get(module, "features", <<>>)
        id == Lower(module.id)
    IN  IF InList("Resonance", features) THEN "resonance-optimized"
        ELSE IF InList("AI", features) \/ InList("LLM", features)
        THEN "ai-enhanced"
        ELSE IF InList("Real-time", features) THEN "realtime-optimized"
        ELSE IF InList("Translation", features) THEN "translation-optimized"
        ELSE IF InList("Security", features) THEN "security-focused"
        ELSE IF InList("Graph", features) THEN "graph-optimized"
        ELSE IF Contains(id, "spec") THEN "spec-native"
        ELSE IF Contains(id, "concept") THEN "concept-optimized"
        ELSE IF Contains(id, "test") THEN "test-optimized"
        ELSE "standard"

\* ModuleConversionMarker._estimate_effort
marker_estimate_effort(module, rs) ==
    LET features == Get(module, "features", <<>>)
    IN  IF Len(rs) > 10 \/ Len(features) > 5 THEN "High"
        ELSE IF Len(rs) > 5 \/ Len(features) > 3 THEN "Medium"
        ELSE "Low"

\* next((m for m in modules if m["id"] == module_id), None): the index of
\* the first match, 0 when there is none
FoundAt(ms, module_id) ==
    IF \E i \in 1..Len(ms) : "id" \in DOMAIN ms[i] /\ ms[i].id = module_id
    THEN CHOOSE i \in 1..Len(ms) :
             /\ "id" \in DOMAIN ms[i] /\ ms[i].id = module_id
             /\ \A j \in 1..(i - 1) :
                    ~("id" \in DOMAIN ms[j] /\ ms[j].id = module_id)
    ELSE 0

\* m["id"] raises KeyError on a record without id met before the match
ScanRaises(ms, module_id) ==
    LET last == IF FoundAt(ms, module_id) = 0 THEN Len(ms)
                ELSE FoundAt(ms, module_id)
    IN  \E j \in 1..last : "id" \notin DOMAIN ms[j]

\* r.get("moduleId") == module_id
RegisteredBy(module_id, r) == Get(r, "moduleId", None) = module_id

\* module_routes of get_module_details
ModuleRoutes(rs, module_id) ==
    LET Mine(r) == RegisteredBy(module_id, r) IN SelectSeq(rs, Mine)

\* the keys create_conversion_spec reads with [] from the module and from
\* each of its routes
ModuleKeys ==
    {"id", "name", "version", "description", "features", "isHotReloadable",
     "isStable", "dependencies"}

RouteKeys == {"id", "name", "path", "method", "description", "tags"}

\* create_conversion_spec raises: module not found (ValueError) or a key
\* missing (KeyError)
CreateRaises(ms, rs, module_id) ==
    \/ ScanRaises(ms, module_id)
    \/ FoundAt(ms, module_id) = 0
    \/ ~(ModuleKeys \subseteq DOMAIN ms[FoundAt(ms, module_id)])
    \/ \E i \in 1..Len(ModuleRoutes(rs, module_id)) :
           ~(RouteKeys \subseteq DOMAIN ModuleRoutes(rs, module_id)[i])

\* the node of submit_conversion_spec
ConversionNode(ms, rs, module_id) ==
    LET module == ms[FoundAt(ms, module_id)]
        mine == ModuleRoutes(rs, module_id)
    IN  [id |-> module_id \o ".conversion",
         typeId |-> "codex.spec/conversion",
         title |-> module.name \o " - Spec-Driven Conversion",
         priority |-> marker_calculate_priority(module),
         strategy |-> marker_determine_strategy(module),
         estimatedEffort |-> marker_estimate_effort(module, mine),
         hotReloadReady |-> module.isHotReloadable,
         routes |-> [i \in 1..Len(mine) |-> mine[i].id]]

\* the node of mark_module_as_not_spec_driven
TrackingNode(module_id) ==
    [id |-> module_id \o ".tracking",
     typeId |-> "codex.spec/tracking",
     title |-> "Tracking for " \o module_id,
     moduleId |-> module_id,
     isSpecDriven |-> FALSE,
     conversionStatus |-> "pending"]

\* session.post(/spec/atoms): the answer seen by the script and whether the
\* service stored the node; an exception may come before or after storing
PostOutcomes ==
    {[status |-> "200", stored |-> TRUE],
     [status |-> "500", stored |-> FALSE],
     [status |-> "exception", stored |-> FALSE],
     [status |-> "exception", stored |-> TRUE]}

\* the node is stored under its id
Stored(store, node, outcome) ==
    IF outcome.stored THEN (node.id :> node) @@ store ELSE store

\* result["success"] of a POST, or the exception caught by main
ResultOf(outcome) ==
    IF outcome.status = "200" THEN "success"
    ELSE IF outcome.status = "exception" THEN "exception"
    ELSE "failed"

\* main after mark_module_as_not_spec_driven: on, or `continue`, or except
AfterTrackingAlwaysConverts(result) == "convert"
AfterTracking(result) == IF result = "success" THEN "convert" ELSE "next"

MarkerModule == high_priority_modules[marker_run.i]

\* the result of a module is printed and the loop goes to the next module
Processed(run, tracking, spec) ==
    [run EXCEPT !.i = @ + 1,
                !.tracking_result = "",
                !.results = Append(@, [module_id |-> high_priority_modules[run.i],
                                       tracking |-> tracking, spec |-> spec])]

AfterMarked(run) ==
    IF run.i >= Len(high_priority_modules) THEN "marker_done" ELSE "mark"

\* main: tracking_result = marker.mark_module_as_not_spec_driven(module_id)
MarkModuleAsNotSpecDriven ==
    /\ pc = "mark"
    /\ \E outcome \in PostOutcomes :
           /\ atoms' = Stored(atoms, TrackingNode(MarkerModule), outcome)
           /\ IF AfterTracking(ResultOf(outcome)) = "convert"
              THEN /\ marker_run' = [marker_run EXCEPT
                                         !.tracking_result = ResultOf(outcome)]
                   /\ pc' = "convert"
              ELSE /\ marker_run' = Processed(marker_run, ResultOf(outcome), "none")
                   /\ pc' = AfterMarked(marker_run)
    /\ UNCHANGED <<inventory, planVars, scoreVars, topicVars, stdout, runVars,
                   routeVars, refVars>>

\* main: spec_result = marker.submit_conversion_spec(module_id)
SubmitConversionSpec ==
    /\ pc = "convert"
    /\ \E fetch \in {"ok", "HTTPError"} :
           IF fetch # "ok"
                  \/ CreateRaises(inventory.modules, inventory.routes, MarkerModule)
           THEN /\ atoms' = atoms
                /\ marker_run' = Processed(marker_run,
                                           marker_run.tracking_result, "exception")
           ELSE \E outcome \in PostOutcomes :
                    /\ atoms' = Stored(atoms,
                                       ConversionNode(inventory.modules,
                                                      inventory.routes,
                                                      MarkerModule),
                                       outcome)
                    /\ marker_run' = Processed(marker_run,
                                               marker_run.tracking_result,
                                               ResultOf(outcome))
    /\ pc' = AfterMarked(marker_run)
    /\ UNCHANGED <<inventory, planVars, scoreVars, topicVars, stdout, runVars,
                   routeVars, refVars>>

NextMarker == MarkModuleAsNotSpecDriven \/ SubmitConversionSpec

MarkerModule1(id, name, features, hot) ==
    [id |-> id, name |-> name, version |-> "1.0", description |-> name,
     features |-> features, isHotReloadable |-> hot, isStable |-> FALSE,
     dependencies |-> <<>>]

\* the module lists of GET /spec/modules/all: all five modules; a list
\* without codex.joy, with a codex.concept that has no description and
\* with a record without id in front of codex.composer
MarkerModuleLists ==
    {<<MarkerModule1("codex.joy", "Joy", <<"Resonance">>, TRUE),
       MarkerModule1("codex.concept", "Concept", <<>>, FALSE),
       MarkerModule1("codex.userconcept", "User Concept", <<"Graph">>, FALSE),
       MarkerModule1("codex.breath", "Breath", <<"AI", "Real-time">>, TRUE),
       MarkerModule1("codex.composer", "Composer", <<>>, FALSE)>>,
     <<[id |-> "codex.concept", name |-> "Concept", version |-> "1.0",
        features |-> <<>>, isHotReloadable |-> FALSE, isStable |-> FALSE,
        dependencies |-> <<>>],
       MarkerModule1("codex.userconcept", "User Concept", <<"Security">>, FALSE),
       MarkerModule1("codex.breath", "Breath", <<>>, FALSE),
       [name |-> "Nameless"],
       MarkerModule1("codex.composer", "Composer", <<>>, FALSE)>>}

MarkerRoute(id, module_id) ==
    [id |-> id, name |-> id, path |-> "/" \o id, method |-> "GET",
     description |-> id, tags |-> <<>>, moduleId |-> module_id]

\* the route lists of GET /spec/routes/all: up to MaxMarkerRoutes routes,
\* one of them without tags
MarkerRoutePool ==
    <<MarkerRoute("joy-amplify", "codex.joy"),
      MarkerRoute("breath-pulse", "codex.breath"),
      [id |-> "userconcept-link", name |-> "userconcept-link",
       path |-> "/userconcept/link", method |-> "POST",
       description |-> "link", moduleId |-> "codex.userconcept"],
      MarkerRoute("concept-list", "codex.concept")>>

MarkerRouteLists ==
    {Slice(MarkerRoutePool, n) : n \in 0..MaxMarkerRoutes}

InitMarker ==
    /\ inventory \in [modules : MarkerModuleLists, routes : MarkerRouteLists]
    /\ atoms = <<>>
    /\ marker_run = [i |-> 1, tracking_result |-> "", results |-> <<>>]
    /\ pc = "mark"
    /\ modules = None /\ routes = None /\ candidates = None /\ phases = None
    /\ history = None /\ first = <<>>
    /\ stdout = <<>>
    /\ NoCall /\ NoTopics /\ NoRoutesRun /\ NoRefRun

SpecMarker == InitMarker /\ [][NextMarker]_vars

(***************************************************************************)
(* Claims about the marking run                                            *)
(***************************************************************************)
Results == marker_run.results

HasNode(id) == id \in DOMAIN atoms

\* C28: a conversion spec is submitted only after the tracking node of the
\* same module was accepted with status 200; every module with a
\* conversion node has a tracking node; a module whose tracking POST was
\* rejected gets no conversion spec; and a rejection or an exception for
\* one module does not keep the later modules from being processed.
C28_ConversionOnlyAfterTracking ==
    /\ pc = "convert" =>
           /\ marker_run.tracking_result = "success"
           /\ HasNode(MarkerModule \o ".tracking")
    /\ pc \in {"mark", "convert", "marker_done"} =>
           /\ \A k \in 1..Len(high_priority_modules) :
                  HasNode(high_priority_modules[k] \o ".conversion")
                      => HasNode(high_priority_modules[k] \o ".tracking")
           /\ \A k \in 1..Len(Results) :
                  /\ Results[k].module_id = high_priority_modules[k]
                  /\ Results[k].spec # "none" => Results[k].tracking = "success"
                  /\ Results[k].tracking # "success" =>
                         /\ Results[k].spec = "none"
                         /\ ~HasNode(Results[k].module_id \o ".conversion")
           /\ Len(Results) = marker_run.i - 1
    /\ pc = "marker_done" => Len(Results) = Len(high_priority_modules)

\* a finished run: the first module rejected, the second stopped by an
\* exception, the third refused its conversion spec, the last two converted
C28_Witness ==
    /\ pc = "marker_done"
    /\ Results[1].tracking = "failed"
    /\ Results[2].tracking = "exception"
    /\ Results[3].spec \in {"failed", "exception"}
    /\ Results[4].spec = "success" /\ Results[5].spec = "success"
    /\ HasNode("codex.composer.conversion") /\ HasNode("codex.composer.tracking")
    /\ ~HasNode("codex.joy.conversion")

\* the module record and the candidate the planner makes of it
MarkedModule(id) == inventory.modules[FoundAt(inventory.modules, id)]

PlannerCandidate(id) == Candidate(MarkedModule(id), RouteCounts(inventory.routes))

\* C27: the priority and the strategy written into a conversion spec are
\* those the planner's scorer gives the same module with its route count.
C27_MarkerAgreesWithPlanner ==
    pc \in {"mark", "convert", "marker_done"} =>
        \A k \in 1..Len(high_priority_modules) :
            LET id == high_priority_modules[k]
            IN  HasNode(id \o ".conversion") =>
                    /\ atoms[id \o ".conversion"].priority
                           = PlannerCandidate(id).priority
                    /\ atoms[id \o ".conversion"].strategy
                           = PlannerCandidate(id).conversion_strategy

====
